---------------------------- MODULE Spec2Model ----------------------------
(***************************************************************************)
(* Gateway / proxy / supervisor subsystem of chutes-skyrimnet.              *)
(*                                                                         *)
(*  - request siloing: the ContextVar carrying the caller identifier and   *)
(*    the middleware that sets and resets it (deploy_xtts_whisper.py)      *)
(*  - protocol translation proxy: _proxy_get, _proxy_post_json,            *)
(*    _proxy_post_multipart and _consume_response (deploy_xtts_whisper.py) *)
(*  - route manifest store: load_route_manifest and _parse_routes_json     *)
(*    (tools/chute_wrappers.py)                                            *)
(*  - passthrough route registrar: register_passthrough_routes,            *)
(*    _should_skip_route, _register_single_route (tools/chute_wrappers.py) *)
(*  - readiness prober: wait_for_services, probe_services, the /health     *)
(*    cord and _wait_for_port (tools/chute_wrappers.py)                    *)
(*  - vendor process supervisor: launch_vendor_process and                 *)
(*    VendorProcessHandle.stop (vendor_launcher.py)                        *)
(*  - vendor launcher: the command line and handle launch_vendor_process   *)
(*    builds on a given host (vendor_launcher.py)                          *)
(*  - key derivation: _get_user_id over requests served in turn, and the   *)
(*    multipart encoding and GET /load cord (deploy_xtts_whisper.py)       *)
(*  - synthesis engines: synthesize under the engine lock                  *)
(*    (deploy_higgs_whisper.py, deploy_vibevoice_whisper.py,               *)
(*    deploy_zonos_whisper.py)                                             *)
(*                                                                         *)
(* Each subsystem has its own specification (SpecSilo, SpecProxy,          *)
(* SpecMultipart, SpecWhisperLoad, SpecManifest, SpecRegistrar,            *)
(* SpecProber, SpecVendor, SpecLauncher, SpecDerive, SpecEngineLive,      *)
(* SpecEngineCancel); the                                                  *)
(* variables of the other subsystems stay at their initial value.          *)
(***************************************************************************)
EXTENDS Integers, Sequences, FiniteSets, TLC

VARIABLES
    \* ---- request siloing (one entry per asyncio task serving requests)
    ctx,        \* ctx[c]: value of _user_id_context in context c, or MISSING
    pc,         \* pc[t]: where task t is in add_user_id_to_context
    req,        \* req[t]: the request task t is serving, or served last
    token,      \* token[t]: the Token returned by _user_id_context.set
    seen,       \* seen[t]: the key _get_user_id returned to t's proxy helper
    outcome,    \* outcome[t]: how call_next ended for t's last request
    \* ---- protocol translation proxy (one forwarding call)
    call,       \* the proxy call: mode, payload, context value
    upstream,   \* what the upstream does with the forwarded request
    sent,       \* the payload that was sent upstream (after siloing)
    result,     \* what the proxy helper returned or raised
    \* ---- route manifest store (one load_route_manifest call)
    env,        \* environment variables and the manifest file
    static_routes, \* the static_routes argument
    loaded,     \* the routes returned, or the error raised
    log,        \* logger records emitted by the call
    \* ---- passthrough route registrar (one register_passthrough_routes call)
    manifest,   \* the routes argument
    cords,      \* the cords registered on the chute, in order
    reglog,     \* logger records emitted by the call
    regstate,   \* "none" before the call, "returned" after it
    \* ---- readiness prober (wait_for_services and /health calls in turn)
    reach,      \* the ports that accept a connection
    now,        \* asyncio.get_running_loop().time(), in seconds
    crashed,    \* the vendor process has died
    pcall,      \* the call in progress or made last
    pidx,       \* index of the port _wait_for_port is waiting for
    pdeadline,  \* deadline of that _wait_for_port
    ppc,        \* "idle", "connect" or "sleep"
    accepted,   \* indices of the ports that accepted during the call
    errors,     \* the errors list of probe_services
    presult,    \* what the call returned or raised
    \* ---- vendor process supervisor (one launch, then stop() calls in turn)
    launch,     \* "none", "starting" or "spawned"
    container_name, \* VendorProcessHandle.container_name, or None
    proc,       \* the process: "not_started", "running" or "exited"
    container,  \* the container: "none", "present" or "removed"
    spc,        \* where the stop() call in progress is, or "idle"
    cur,        \* what the stop() call in progress found and did
    stoplog,    \* the same for every stop() call that has returned
    signals,    \* the signals sent to the process so far
    visited,    \* the lifecycle states the process went through
    \* ---- vendor launcher (one launch_vendor_process call)
    machine,    \* what the host offers: files, docker, GPU, os.environ
    largs,      \* the ports and GPU override name passed to the call
    launched,   \* what the call returned or raised
    \* ---- key derivation (requests served one after the other)
    kctx,       \* _user_id_context in the serving task's context
    serving,    \* the request being served: where it is, its token, its key
    derived,    \* per request served: what it carried and its key
    \* ---- synthesis engine (concurrent synthesize calls on one engine)
    engine,     \* which engine class the object is
    lock,       \* self._lock, an asyncio.Lock
    epc,        \* where each caller's synthesize call is
    generating, \* the callers whose _generate runs in a worker thread
    ended,      \* per caller: what its _generate ended with in the thread,
                \* until the loop has run the callback of the future
    future,     \* per caller: what the future of run_in_executor holds
    orphans,    \* _generate still running in worker threads, awaited by
                \* nobody: the task that started them was cancelled
    eoutcome,   \* how each caller's last call ended
    waited      \* whether the caller's call had to queue for the lock

siloVars == <<ctx, pc, req, token, seen, outcome>>
proxyVars == <<call, upstream, sent, result>>
manifestVars == <<env, static_routes, loaded, log>>
registrarVars == <<manifest, cords, reglog, regstate>>
proberVars == <<reach, now, crashed, pcall, pidx, pdeadline, ppc, accepted,
                errors, presult>>
vendorVars == <<launch, container_name, proc, container, spc, cur, stoplog,
                signals, visited>>
launcherVars == <<machine, largs, launched>>
deriveVars == <<kctx, serving, derived>>
engineVars == <<engine, lock, epc, generating, ended, future, orphans,
                eoutcome, waited>>
vars == <<siloVars, proxyVars, manifestVars, registrarVars, proberVars,
          vendorVars,
          launcherVars,
          deriveVars,
          engineVars>>

\* Python's None, and the Token.MISSING of a ContextVar never set.
None == "<None>"
MISSING == "<MISSING>"

(***************************************************************************)
(* Bounds                                                                  *)
(***************************************************************************)
NumTasks == 2
Tasks == 1..NumTasks

(***************************************************************************)
(* Request siloing                                                         *)
(***************************************************************************)

\* Values of the silo_id query parameter and of the X-Silo-ID header.
QueryValues == {None, "", "alice"}
HeaderValues == {None, "bob", "default"}
Requests == [query : QueryValues, header : HeaderValues]
NoRequest == [query |-> None, header |-> None]

\* hashlib.md5(s.encode()).hexdigest()[:16] on the identifiers above.
Md5Hex16(s) ==
    CASE s = "alice" -> "6384e2b2184bcbf5"
      [] s = "bob" -> "9f9d51bc70ef21ca"
      [] s = "default" -> "c21f969b5f03d33d"

\* ContextVar("user_id", default="default"): get / set / reset on one context.
ContextVarGet(c) == IF c = MISSING THEN "default" ELSE c
ContextVarSet(c, v) == [value |-> v, token |-> c]
ContextVarReset(c, tok) == tok

\* A module-level global instead of a ContextVar: every task shares one slot.
ContextOfGlobal(t) == 1
\* The context task t runs in: asyncio gives each task its own copy.
ContextOf(t) == t

\* The identifier the middleware takes from the request.
RequestUserId(r) ==
    LET user_id == r.query
    IN  IF user_id = None \/ user_id = ""
        THEN (IF r.header = None THEN "default" ELSE r.header)
        ELSE user_id

\* _get_user_id without the test for "default": it hashes every value
GetUserIdHashAll(c) == Md5Hex16(ContextVarGet(c))

_get_user_id(c) ==
    LET user_id == ContextVarGet(c)
    IN  IF user_id = "default" THEN "default" ELSE Md5Hex16(user_id)

\* Reset only when call_next returned: the try without its finally.
ExitContextNoFinally(c, tok, how) ==
    IF how = "raised" THEN c ELSE ContextVarReset(c, tok)
\* The finally block: reset(token) whether call_next returned or raised.
ExitContext(c, tok, how) == ContextVarReset(c, tok)

InFlight(t) == pc[t] # "idle"

\* add_user_id_to_context up to `await call_next(request)`.
RequestEntry(t) ==
    /\ pc[t] = "idle"
    /\ \E r \in Requests :
         LET s == ContextVarSet(ctx[ContextOf(t)], RequestUserId(r))
         IN  /\ req' = [req EXCEPT ![t] = r]
             /\ ctx' = [ctx EXCEPT ![ContextOf(t)] = s.value]
             /\ token' = [token EXCEPT ![t] = s.token]
    /\ pc' = [pc EXCEPT ![t] = "entered"]
    /\ seen' = [seen EXCEPT ![t] = None]
    /\ outcome' = [outcome EXCEPT ![t] = None]
    /\ UNCHANGED <<proxyVars, manifestVars, registrarVars, proberVars,
                   vendorVars,
                   launcherVars,
                   deriveVars,
                   engineVars>>

\* The cord runs up to the await of the upstream call. The POST helpers read
\* the siloing key first; _proxy_get does not read it.
HandlerCall(t) ==
    /\ pc[t] = "entered"
    /\ \E mode \in {"get", "post_json", "post_multipart"} :
         seen' = [seen EXCEPT ![t] =
                    IF mode = "get" THEN None
                    ELSE _get_user_id(ctx[ContextOf(t)])]
    /\ pc' = [pc EXCEPT ![t] = "awaiting"]
    /\ UNCHANGED <<ctx, req, token, outcome, proxyVars, manifestVars, registrarVars, proberVars,
                   vendorVars,
                   launcherVars,
                   deriveVars,
                   engineVars>>

\* call_next returns a response, or an exception propagates out of it.
HandlerDone(t) ==
    /\ pc[t] = "awaiting"
    /\ \E how \in {"returned", "raised"} :
         outcome' = [outcome EXCEPT ![t] = how]
    /\ pc' = [pc EXCEPT ![t] = "responded"]
    /\ UNCHANGED <<ctx, req, token, seen, proxyVars, manifestVars, registrarVars, proberVars,
                   vendorVars,
                   launcherVars,
                   deriveVars,
                   engineVars>>

\* The end of add_user_id_to_context.
RequestExit(t) ==
    /\ pc[t] = "responded"
    /\ ctx' = [ctx EXCEPT ![ContextOf(t)] =
                 ExitContext(ctx[ContextOf(t)], token[t], outcome[t])]
    /\ pc' = [pc EXCEPT ![t] = "idle"]
    /\ token' = [token EXCEPT ![t] = MISSING]
    /\ seen' = [seen EXCEPT ![t] = None]
    /\ UNCHANGED <<req, outcome, proxyVars, manifestVars, registrarVars, proberVars,
                   vendorVars,
                   launcherVars,
                   deriveVars,
                   engineVars>>

SiloInit ==
    /\ ctx = [c \in Tasks |-> MISSING]
    /\ pc = [t \in Tasks |-> "idle"]
    /\ req = [t \in Tasks |-> NoRequest]
    /\ token = [t \in Tasks |-> MISSING]
    /\ seen = [t \in Tasks |-> None]
    /\ outcome = [t \in Tasks |-> None]

SiloNext ==
    \E t \in Tasks :
        \/ RequestEntry(t)
        \/ HandlerCall(t)
        \/ HandlerDone(t)
        \/ RequestExit(t)

(***************************************************************************)
(* Protocol translation proxy                                              *)
(***************************************************************************)

\* Strings the proxy inspects are sequences of characters.
SpeakerValues == { <<"v", "1">>, <<"/", "v">>, <<"a", "|", "b">> }
TextValues == { <<"h", "i">> }
FieldValues(k) == IF k = "text" THEN TextValues ELSE SpeakerValues
PayloadFields == {"speaker_name", "speaker_wav", "text"}
\* A payload is a dict: a function from the keys present to their values.
Payloads ==
    UNION { { p \in [D -> SpeakerValues \cup TextValues] :
                \A k \in D : p[k] \in FieldValues(k) } :
            D \in SUBSET PayloadFields }
EmptyPayload == [k \in {} |-> <<>>]

Modes == {"get", "post_json", "post_multipart"}
\* The value of _user_id_context in the context the helper runs in.
ContextValues == {MISSING, "alice", "default"}
Calls ==
    { c \in [mode : Modes, payload : Payloads, ctx : ContextValues] :
        c.mode = "get" => (c.payload = EmptyPayload /\ c.ctx = MISSING) }

\* What the upstream does: it answers (status, Content-Type, body), or the
\* connection fails (aiohttp.ClientError), or the call times out
\* (asyncio.TimeoutError, not a ClientError).
Statuses == {200, 302, 399, 400, 404, 499, 500, 503, 599}
\* The Content-Type header as the upstream writes it, and the text of the
\* response body: a JSON object, the JSON value null, and a text that is
\* not JSON.
ContentTypes ==
    {"application/json", "application/json; charset=utf-8",
     "Application/JSON", "audio/wav", ""}
BodyTexts == {"{\"a\": 1}", "null", "not json"}
Bodies == [content_type : ContentTypes, body : BodyTexts]
UpstreamsWith(bodies) ==
    { [kind |-> "response", status |-> st, content_type |-> b.content_type,
       body |-> b.body] :
        st \in Statuses, b \in bodies }
    \cup { [kind |-> "connection_refused"], [kind |-> "dns_failure"],
           [kind |-> "timeout"] }
Upstreams == UpstreamsWith(Bodies)

NoResult == [type |-> "none"]
NothingSent == [method |-> "none"]

HTTPException(status_code, detail) ==
    [type |-> "HTTPException", status_code |-> status_code, detail |-> detail]

IsException(r) == r.type \in {"HTTPException", "ClientError", "TimeoutError"}

\* str(e) of the exception the helper caught.
StrOf(e) ==
    IF e.type = "HTTPException"
    THEN [status_code |-> e.status_code, detail |-> e.detail]
    ELSE [exc |-> e.type]

\* `sub in text` on Python strings
StrContains(text, sub) ==
    \E i \in 1..(Len(text) - Len(sub) + 1) :
        SubSeq(text, i, i + Len(sub) - 1) = sub

\* str.lower() on the characters a Content-Type header is written with
LowerChar(c) ==
    CASE c = "A" -> "a" [] c = "B" -> "b" [] c = "C" -> "c" [] c = "D" -> "d"
      [] c = "E" -> "e" [] c = "F" -> "f" [] c = "G" -> "g" [] c = "H" -> "h"
      [] c = "I" -> "i" [] c = "J" -> "j" [] c = "K" -> "k" [] c = "L" -> "l"
      [] c = "M" -> "m" [] c = "N" -> "n" [] c = "O" -> "o" [] c = "P" -> "p"
      [] c = "Q" -> "q" [] c = "R" -> "r" [] c = "S" -> "s" [] c = "T" -> "t"
      [] c = "U" -> "u" [] c = "V" -> "v" [] c = "W" -> "w" [] c = "X" -> "x"
      [] c = "Y" -> "y" [] c = "Z" -> "z" [] OTHER -> c
RECURSIVE StrLower(_)
StrLower(text) ==
    IF Len(text) = 0 THEN ""
    ELSE LowerChar(SubSeq(text, 1, 1)) \o StrLower(SubSeq(text, 2, Len(text)))

\* content_type = (resp.headers.get("Content-Type") or "").lower()
content_type(resp) == StrLower(resp.content_type)

\* json.loads on the body texts: the texts that are JSON documents parse,
\* the document null to None; any other text raises.
JsonDocuments == {"{\"a\": 1}", "null", "{\"detail\": \"no /load\"}"}
JsonLoads(text) ==
    IF text \in JsonDocuments
    THEN [ok |-> TRUE, is_none |-> text = "null"]
    ELSE [ok |-> FALSE, is_none |-> TRUE]

\* parsed_json: json.loads(body) when the lower-cased Content-Type contains
\* "application/json" and the body parses; None when the header does not,
\* when the parsing raised, and when the document is null.
ParsedJson(resp) ==
    IF /\ StrContains(content_type(resp), "application/json")
       /\ JsonLoads(resp.body).ok
       /\ ~JsonLoads(resp.body).is_none
    THEN [kind |-> "json", value |-> resp.body]
    ELSE [kind |-> "None"]

\* detail = parsed_json if parsed_json is not None else body.decode(...)
ErrorDetail(resp) ==
    IF ParsedJson(resp).kind = "json"
    THEN ParsedJson(resp)
    ELSE [kind |-> "str", value |-> resp.body]

\* What _consume_response does with a status below 400.
ConsumeSuccess(resp) ==
    IF ParsedJson(resp).kind = "json"
    THEN [type |-> "json", value |-> ParsedJson(resp).value]
    ELSE [type |-> "Response",
          content |-> resp.body,
          media_type |-> IF content_type(resp) = ""
                         THEN "application/octet-stream"
                         ELSE content_type(resp),
          status_code |-> resp.status]

\* _consume_response without the remapping of 5xx: every status of 400 and
\* above is raised as it is.
ConsumeResponseNoRemap(resp) ==
    IF resp.status >= 400
    THEN HTTPException(resp.status, ErrorDetail(resp))
    ELSE ConsumeSuccess(resp)

_consume_response(resp) ==
    IF resp.status >= 400
    THEN IF resp.status >= 500
         THEN HTTPException(429,
                [kind |-> "dict",
                 error |-> "UpstreamError",
                 upstream_status |-> resp.status,
                 message |-> [text |-> "Upstream service returned error: ",
                              about |-> ErrorDetail(resp)]])
         ELSE HTTPException(resp.status, ErrorDetail(resp))
    ELSE ConsumeSuccess(resp)

\* session.get / session.post followed by _consume_response: the value
\* returned or the exception raised inside the helper's try block.
Attempt(up) ==
    CASE up.kind = "response" -> _consume_response(up)
      [] up.kind \in {"connection_refused", "dns_failure"} ->
            [type |-> "ClientError", cause |-> up.kind]
      [] up.kind = "timeout" -> [type |-> "TimeoutError"]

UpstreamUnreachable(e) ==
    HTTPException(429,
        [kind |-> "dict",
         error |-> "UpstreamUnreachable",
         message |-> [text |-> "Upstream service is starting or unreachable: ",
                      about |-> StrOf(e)]])

InternalProxyError(e) ==
    HTTPException(429,
        [kind |-> "dict",
         error |-> "InternalProxyError",
         message |-> [text |-> "Unexpected error proxying request: ",
                      about |-> StrOf(e)]])

\* The except clauses of _proxy_get: ClientError, then Exception. An
\* HTTPException raised by _consume_response is an Exception.
ProxyGetExcept(e) ==
    IF e.type = "ClientError" THEN UpstreamUnreachable(e)
    ELSE InternalProxyError(e)

\* The except clauses of _proxy_post_json and _proxy_post_multipart:
\* ClientError, then HTTPException (raised again), then Exception.
ProxyPostExcept(e) ==
    IF e.type = "ClientError" THEN UpstreamUnreachable(e)
    ELSE IF e.type = "HTTPException" THEN e
    ELSE InternalProxyError(e)

_proxy_get(up) ==
    LET r == Attempt(up)
    IN  IF IsException(r) THEN ProxyGetExcept(r) ELSE r

\* The object whisper_load_get returns in place of the upstream's 404.
LoadUnavailable ==
    [type |-> "json",
     value |-> "{status: unavailable, detail: Upstream whisper.cpp HTTP server does not serve GET /load; use POST /whisper_load to load a model.}"]

\* The cord GET /load: _proxy_get, then the except HTTPException clause.
whisper_load_get(up) ==
    LET r == _proxy_get(up)
    IN  IF r.type = "HTTPException"
        THEN IF /\ r.status_code = 404
                /\ r.detail.kind = "str"
                /\ StrContains(r.detail.value, "/load")
             THEN LoadUnavailable
             ELSE r
        ELSE r

\* Python values of a JSON payload besides the strings above: None, and
\* nested values (dict, list), written as a tuple that starts with the
\* brackets of the value.
NestedValues == { << "{}", "speed", "1.0" >>, << "[]", "a", "b" >> }
\* None as the value of a payload item
NoneValue == << None >>
IsNone(value) == value = NoneValue
IsNested(value) ==
    /\ ~IsNone(value)
    /\ Len(value) > 0
    /\ value[1] \in {"{}", "[]"}

\* isinstance(value, str), for the values a payload holds here.
IsStr(value) == ~IsNone(value) /\ ~IsNested(value)

\* The text an f-string makes of a value, str(value): a string as it is,
\* None as "None", a nested value as its Python text.
FormatValue(value) ==
    IF IsNone(value) THEN <<"N", "o", "n", "e">>
    ELSE IF IsNested(value) THEN << "str" >> \o value
    ELSE value

\* f"{user_silo}_{value}"
Prefixed(user_silo, value) == <<user_silo, "_">> \o FormatValue(value)

StartsWith(s, ch) == Len(s) > 0 /\ s[1] = ch
Contains(s, ch) == \E i \in 1..Len(s) : s[i] = ch

\* payload["speaker_wav"].startswith("/") on a value that is not a string:
\* None, a list or a dict has no startswith, the siloing raises
\* AttributeError.
SiloRaises(payload) ==
    /\ "speaker_wav" \in DOMAIN payload
    /\ ~IsStr(payload["speaker_wav"])

\* The siloing both POST helpers apply to the payload before sending it,
\* when it does not raise.
SiloPayload(payload, user_silo) ==
    [k \in DOMAIN payload |->
        IF k = "speaker_name" THEN Prefixed(user_silo, payload[k])
        ELSE IF k = "speaker_wav"
                /\ ~StartsWith(payload[k], "/")
                /\ ~Contains(payload[k], "|")
             THEN Prefixed(user_silo, payload[k])
        ELSE payload[k]]

_proxy_post_json(payload, c, up) ==
    LET user_silo == _get_user_id(c)
        r == Attempt(up)
    IN  IF SiloRaises(payload)
        THEN \* caught by `except Exception`, nothing is sent
             [sent |-> NothingSent,
              result |-> InternalProxyError([type |-> "AttributeError"])]
        ELSE [sent |-> [method |-> "POST", encoding |-> "json",
                        body |-> SiloPayload(payload, user_silo)],
              result |-> IF IsException(r) THEN ProxyPostExcept(r) ELSE r]

\* key.endswith("_base64") and key.rsplit("_base64", 1)[0]
Base64Suffix == "_base64"
EndsWithBase64(key) ==
    /\ Len(key) >= Len(Base64Suffix)
    /\ SubSeq(key, Len(key) - Len(Base64Suffix) + 1, Len(key)) = Base64Suffix
FieldName(key) == SubSeq(key, 1, Len(key) - Len(Base64Suffix))

\* base64.b64decode on the texts used as values: "aGk=" is b"hi", "!!!!"
\* holds no base64 character and decodes to b"", "abc" has incorrect
\* padding and raises binascii.Error.
Base64Values ==
    { <<"a", "G", "k", "=">>, <<"!", "!", "!", "!">>, <<"a", "b", "c">> }
b64decode(value) ==
    CASE value = <<"a", "G", "k", "=">> -> [ok |-> TRUE, bytes |-> <<"h", "i">>]
      [] value = <<"!", "!", "!", "!">> -> [ok |-> TRUE, bytes |-> << >>]
      [] value = <<"a", "b", "c">> -> [ok |-> FALSE, bytes |-> << >>]

\* json.dumps(value): the JSON text of a nested value
JsonDumps(value) == << "json" >> \o value

FilePart(field_name, file_bytes) ==
    [name |-> field_name, value |-> file_bytes,
     filename |-> field_name \o ".wav", content_type |-> "audio/wav"]
JsonPart(key, value) ==
    [name |-> key, value |-> JsonDumps(value),
     filename |-> None, content_type |-> "application/json"]
\* form.add_field(key, str(value)) for a value that is a string
PlainPart(key, value) ==
    [name |-> key, value |-> value, filename |-> None, content_type |-> None]

\* What one item of the payload adds to the form.
FormFields(key, value) ==
    IF IsNone(value) THEN {}
    ELSE IF EndsWithBase64(key)
         THEN IF b64decode(value).ok
              THEN {FilePart(FieldName(key), b64decode(value).bytes)}
              ELSE {}
    ELSE IF IsNested(value) THEN {JsonPart(key, value)}
    ELSE {PlainPart(key, value)}

\* The items whose decoding raised: logged with a warning, then skipped.
DecodeWarnings(payload) ==
    { key \in DOMAIN payload :
        /\ ~IsNone(payload[key])
        /\ EndsWithBase64(key)
        /\ ~b64decode(payload[key]).ok }

\* The fields of the aiohttp.FormData built from the payload.
_encode_multipart(payload) ==
    [fields |-> UNION { FormFields(key, payload[key]) : key \in DOMAIN payload },
     warnings |-> DecodeWarnings(payload)]

_proxy_post_multipart(payload, c, up) ==
    LET user_silo == _get_user_id(c)
        siloed == SiloPayload(payload, user_silo)
        form == _encode_multipart(siloed)
        r == Attempt(up)
    IN  IF SiloRaises(payload)
        THEN \* caught by `except Exception`, nothing is sent
             [sent |-> NothingSent,
              result |-> InternalProxyError([type |-> "AttributeError"])]
        ELSE [sent |-> [method |-> "POST", encoding |-> "multipart",
                        body |-> siloed, form |-> form.fields,
                        warnings |-> form.warnings],
              result |-> IF IsException(r) THEN ProxyPostExcept(r) ELSE r]

\* The status code of the response the caller receives: a returned JSON
\* value is answered with 200.
CallerStatus(r) ==
    IF r.type = "json" THEN 200 ELSE r.status_code

\* _proxy_get up to `async with session.get(...)`: the request is handed to
\* aiohttp and the helper waits for the answer.
ProxyGetRequest ==
    /\ call.mode = "get"
    /\ sent = NothingSent
    /\ result = NoResult
    /\ sent' = [method |-> "GET", body |-> EmptyPayload]
    /\ UNCHANGED <<call, upstream, result, siloVars, manifestVars, registrarVars, proberVars,
                   vendorVars,
                   launcherVars,
                   deriveVars,
                   engineVars>>

\* _proxy_get from the answer on: `await resp.read()` inside _consume_response, or
\* the exception of the request, up to the value returned or raised.
ProxyGetResponse ==
    /\ call.mode = "get"
    /\ sent # NothingSent
    /\ result = NoResult
    /\ result' = _proxy_get(upstream)
    /\ UNCHANGED <<call, upstream, sent, siloVars, manifestVars, registrarVars, proberVars,
                   vendorVars,
                   launcherVars,
                   deriveVars,
                   engineVars>>

\* _proxy_post_json up to `async with session.post(...)`: the request is handed to
\* aiohttp and the helper waits for the answer.
ProxyPostJsonRequest ==
    /\ call.mode = "post_json"
    /\ sent = NothingSent
    /\ result = NoResult
    /\ IF _proxy_post_json(call.payload, call.ctx, upstream).sent = NothingSent
       THEN \* nothing is handed over, the helper raises at once
            /\ result' = _proxy_post_json(call.payload, call.ctx, upstream).result
            /\ UNCHANGED sent
       ELSE /\ sent' = _proxy_post_json(call.payload, call.ctx, upstream).sent
            /\ UNCHANGED result
    /\ UNCHANGED <<call, upstream, siloVars, manifestVars, registrarVars, proberVars,
                   vendorVars,
                   launcherVars,
                   deriveVars,
                   engineVars>>

\* _proxy_post_json from the answer on: `await resp.read()` inside _consume_response, or
\* the exception of the request, up to the value returned or raised.
ProxyPostJsonResponse ==
    /\ call.mode = "post_json"
    /\ sent # NothingSent
    /\ result = NoResult
    /\ result' = _proxy_post_json(call.payload, call.ctx, upstream).result
    /\ UNCHANGED <<call, upstream, sent, siloVars, manifestVars, registrarVars, proberVars,
                   vendorVars,
                   launcherVars,
                   deriveVars,
                   engineVars>>

\* _proxy_post_multipart up to `async with session.post(...)`: the request is handed to
\* aiohttp and the helper waits for the answer.
ProxyPostMultipartRequest ==
    /\ call.mode = "post_multipart"
    /\ sent = NothingSent
    /\ result = NoResult
    /\ IF _proxy_post_multipart(call.payload, call.ctx, upstream).sent = NothingSent
       THEN \* nothing is handed over, the helper raises at once
            /\ result' = _proxy_post_multipart(call.payload, call.ctx, upstream).result
            /\ UNCHANGED sent
       ELSE /\ sent' = _proxy_post_multipart(call.payload, call.ctx, upstream).sent
            /\ UNCHANGED result
    /\ UNCHANGED <<call, upstream, siloVars, manifestVars, registrarVars, proberVars,
                   vendorVars,
                   launcherVars,
                   deriveVars,
                   engineVars>>

\* _proxy_post_multipart from the answer on: `await resp.read()` inside _consume_response, or
\* the exception of the request, up to the value returned or raised.
ProxyPostMultipartResponse ==
    /\ call.mode = "post_multipart"
    /\ sent # NothingSent
    /\ result = NoResult
    /\ result' = _proxy_post_multipart(call.payload, call.ctx, upstream).result
    /\ UNCHANGED <<call, upstream, sent, siloVars, manifestVars, registrarVars, proberVars,
                   vendorVars,
                   launcherVars,
                   deriveVars,
                   engineVars>>

\* Payloads of the multipart cords: names and texts, audio as base64 text
\* (wav_file_base64), a nested value, and values that may be null, the
\* siloed ones included.
MultipartValues(k) ==
    CASE k = "speaker_name" ->
             { <<"v", "1">>, NoneValue, << "{}", "speed", "1.0" >> }
      [] k = "speaker_wav" ->
             { <<"v", "1">>, <<"/", "v">>, NoneValue, << "[]", "a", "b" >> }
      [] k = "text" -> TextValues
      [] k = "language" -> { NoneValue, <<"e", "n">> }
      [] k = "wav_file_base64" -> Base64Values \cup {NoneValue}
      [] k = "options" -> NestedValues
MultipartFields ==
    {"speaker_name", "speaker_wav", "text", "language", "wav_file_base64",
     "options"}
MultipartPayloads ==
    UNION { { p \in [D -> UNION { MultipartValues(k) : k \in D }] :
                \A k \in D : p[k] \in MultipartValues(k) } :
            D \in SUBSET MultipartFields }
MultipartCalls ==
    [mode : {"post_multipart"}, payload : MultipartPayloads,
     ctx : ContextValues]

\* What the whisper.cpp server may answer to GET /load: its 404 page names
\* the path; other bodies do not.
LoadBodies ==
    { [content_type |-> "", body |-> "File Not Found (/load)"],
      [content_type |-> "text/plain", body |-> "Not Found"],
      [content_type |-> "application/json", body |-> "File Not Found (/load)"],
      [content_type |-> "application/json", body |-> "{\"detail\": \"no /load\"}"],
      [content_type |-> "application/json", body |-> "null"] }
LoadUpstreams == UpstreamsWith(LoadBodies)
LoadCall == [mode |-> "whisper_load_get", payload |-> EmptyPayload,
             ctx |-> MISSING]

NoCall == [mode |-> "none", payload |-> EmptyPayload, ctx |-> MISSING]

ProxyIdle ==
    /\ call = NoCall
    /\ upstream = [kind |-> "none"]
    /\ sent = NothingSent
    /\ result = NoResult

ProxyInit ==
    /\ call \in Calls
    /\ upstream \in Upstreams
    /\ sent = NothingSent
    /\ result = NoResult

ProxyNext ==
    \/ ProxyGetRequest \/ ProxyGetResponse
    \/ ProxyPostJsonRequest \/ ProxyPostJsonResponse
    \/ ProxyPostMultipartRequest \/ ProxyPostMultipartResponse

\* The cord GET /load up to `async with session.get(...)` in _proxy_get.
WhisperLoadGetRequest ==
    /\ call.mode = "whisper_load_get"
    /\ sent = NothingSent
    /\ result = NoResult
    /\ sent' = [method |-> "GET", body |-> EmptyPayload]
    /\ UNCHANGED <<call, upstream, result, siloVars, manifestVars,
                   registrarVars, proberVars, vendorVars, launcherVars,
                   deriveVars, engineVars>>

\* The cord GET /load from the answer on: _proxy_get's result, then the
\* cord's except HTTPException clause.
WhisperLoadGetResponse ==
    /\ call.mode = "whisper_load_get"
    /\ sent # NothingSent
    /\ result = NoResult
    /\ result' = whisper_load_get(upstream)
    /\ UNCHANGED <<call, upstream, sent, siloVars, manifestVars,
                   registrarVars, proberVars, vendorVars, launcherVars,
                   deriveVars, engineVars>>

WhisperLoadInit ==
    /\ call = LoadCall
    /\ upstream \in LoadUpstreams
    /\ sent = NothingSent
    /\ result = NoResult

WhisperLoadNext == WhisperLoadGetRequest \/ WhisperLoadGetResponse

\* The upstream of a multipart call: one answer of each kind of body for
\* every status, and the failures.
MultipartBodies ==
    { [content_type |-> "application/json", body |-> "{\"a\": 1}"],
      [content_type |-> "audio/wav", body |-> "not json"] }
MultipartUpstreams == UpstreamsWith(MultipartBodies)

MultipartInit ==
    /\ call \in MultipartCalls
    /\ upstream \in MultipartUpstreams
    /\ sent = NothingSent
    /\ result = NoResult

MultipartNext == ProxyPostMultipartRequest \/ ProxyPostMultipartResponse

(***************************************************************************)
(* Route manifest store                                                    *)
(***************************************************************************)
MaxDiscovered == 2
MaxStatic == 2

\* Route entries as the manifest and the static list give them: dicts whose
\* optional keys (method, target_path) may be absent.
RouteSet ==
    { [path |-> "/x", method |-> "GET", port |-> 1],
      [path |-> "/x", method |-> "get", port |-> 2],
      [path |-> "/x", port |-> 1],
      [path |-> "/x", method |-> "GET", port |-> 1, target_path |-> "/v1/x"],
      [path |-> "/x", method |-> "POST", port |-> 1],
      [path |-> "/y", method |-> "GET", port |-> 2] }

SeqsUpTo(S, n) == UNION { [1..k -> S] : k \in 0..n }

\* str.upper() on the method names in use.
Upper(m) ==
    CASE m = "get" -> "GET"
      [] m = "post" -> "POST"
      [] OTHER -> m

\* (route["path"], route.get("method", "GET").upper())
RouteKey(r) ==
    <<r.path, Upper(IF "method" \in DOMAIN r THEN r.method ELSE "GET")>>

\* route.get(k): the value in a one-element tuple, or the empty tuple for None.
RouteGet(r, k) == IF k \in DOMAIN r THEN <<r[k]>> ELSE <<>>

\* The text of the manifest (inline variable or file) by what json.loads
\* makes of it.
ListDoc(items) == [json |-> "list", items |-> items]
ObjectDoc(routes) == [json |-> "object", has_routes |-> TRUE, routes |-> routes]
MalformedDocs ==
    { [json |-> "invalid"],
      [json |-> "scalar"],
      [json |-> "object", has_routes |-> FALSE],
      ObjectDoc([json |-> "scalar"]),
      ObjectDoc([json |-> "null"]) }
WellFormedDocs ==
    { ListDoc(l) : l \in SeqsUpTo(RouteSet, MaxDiscovered) }
    \cup { ObjectDoc(ListDoc(l)) : l \in SeqsUpTo(RouteSet, 1) }
Docs == WellFormedDocs \cup MalformedDocs
\* An environment variable that is not set, a file that does not exist.
Unset == [json |-> "unset"]
\* An environment variable set to the empty string, an empty file.
EmptyText == [json |-> "empty"]

ValueError == [status |-> "raised", error |-> "ValueError"]
RuntimeError == [status |-> "raised", error |-> "RuntimeError"]
Returned(routes) == [status |-> "returned", routes |-> routes]

_parse_routes_json(raw) ==
    IF raw.json \in {"invalid", "empty"} THEN ValueError
    ELSE LET data == IF raw.json = "object"
                     THEN (IF raw.has_routes THEN raw.routes
                           ELSE ListDoc(<<>>))
                     ELSE raw
         IN  IF data.json # "list" THEN ValueError
             ELSE Returned(data.items)

\* existing = {key: r for r in routes}: the last route of a key stays.
\* The merge starting from an empty `existing`: no discovered key is known
ExistingOfNothing(routes) == [k \in {} |-> << >>]

ExistingOf(routes) ==
    [k \in { RouteKey(routes[i]) : i \in 1..Len(routes) } |->
        LET last == CHOOSE i \in 1..Len(routes) :
                        /\ RouteKey(routes[i]) = k
                        /\ \A j \in (i+1)..Len(routes) : RouteKey(routes[j]) # k
        IN  routes[last]]

Differs(route, existing_route) ==
    \/ RouteGet(route, "port") # RouteGet(existing_route, "port")
    \/ RouteGet(route, "target_path") # RouteGet(existing_route, "target_path")

\* The state of the merge loop: routes, existing, duplicates, and the
\* warnings logged.
RECURSIVE MergeLoop(_, _, _)
MergeLoop(static, i, st) ==
    IF i > Len(static) THEN st
    ELSE
      LET route == static[i]
          key == RouteKey(route)
      IN  IF key \in DOMAIN st.existing
          THEN IF Differs(route, st.existing[key])
               THEN MergeLoop(static, i + 1,
                      [st EXCEPT !.log = Append(@,
                          [level |-> "warning", key |-> key, static |-> route,
                           discovered |-> st.existing[key]])])
               ELSE MergeLoop(static, i + 1,
                      [st EXCEPT !.duplicates = Append(@, <<key[2], key[1]>>)])
          ELSE MergeLoop(static, i + 1,
                 [st EXCEPT !.routes = Append(@, route),
                            !.existing = [k \in DOMAIN @ \cup {key} |->
                                            IF k = key THEN route ELSE @[k]]])

\* "Merge static routes (avoid duplicates by path+method)"
MergeStatic(routes, static) ==
    IF static = <<>> THEN [routes |-> routes, log |-> <<>>]
    ELSE
      LET st == MergeLoop(static, 1,
                  [routes |-> routes, existing |-> ExistingOf(routes),
                   duplicates |-> <<>>, log |-> <<>>])
      IN  [routes |-> st.routes,
           log |-> IF st.duplicates # <<>>
                   THEN Append(st.log,
                          [level |-> "info",
                           skipped |-> Len(st.duplicates),
                           names |-> SubSeq(st.duplicates, 1,
                                       IF Len(st.duplicates) > 3 THEN 3
                                       ELSE Len(st.duplicates)),
                           more |-> Len(st.duplicates) > 3])
                   ELSE st.log]

Truthy(text) == text # Unset /\ text # EmptyText

\* The discovered part without the manifest-missing check: a call with no
\* source goes on with an empty list whatever the static list is.
LoadDiscoveredNoMissingCheck(e, static) ==
    IF Truthy(e.inline) THEN _parse_routes_json(e.inline)
    ELSE IF e.file # Unset THEN _parse_routes_json(e.file)
    ELSE Returned(<<>>)

\* The discovered routes: the inline manifest when the variable is set and
\* not empty, else the manifest file when it exists, else RuntimeError when
\* there is no static route either.
LoadDiscovered(e, static) ==
    IF Truthy(e.inline) THEN _parse_routes_json(e.inline)
    ELSE IF e.file # Unset THEN _parse_routes_json(e.file)
    ELSE IF static = <<>> THEN RuntimeError
    ELSE Returned(<<>>)

\* load_route_manifest: e.skip is CHUTES_SKIP_ROUTE_REGISTRATION, e.inline is
\* CHUTES_ROUTE_MANIFEST_JSON, e.file is the text of the file at
\* manifest_path (Unset when manifest_path.exists() is false).
load_route_manifest(e, static) ==
    IF Truthy(e.skip) THEN [loaded |-> Returned(<<>>), log |-> <<>>]
    ELSE
      LET parsed == LoadDiscovered(e, static)
      IN  IF parsed.status = "raised" THEN [loaded |-> parsed, log |-> <<>>]
          ELSE LET m == MergeStatic(parsed.routes, static)
               IN  [loaded |-> Returned(m.routes), log |-> m.log]

NotLoaded == [status |-> "none"]

LoadRouteManifest ==
    /\ loaded = NotLoaded
    /\ loaded' = load_route_manifest(env, static_routes).loaded
    /\ log' = load_route_manifest(env, static_routes).log
    /\ UNCHANGED <<env, static_routes, siloVars, proxyVars, registrarVars, proberVars,
                   vendorVars,
                   launcherVars,
                   deriveVars,
                   engineVars>>

\* The environment a deployment can start in.
OtherDoc == ListDoc(<< [path |-> "/y", method |-> "GET", port |-> 2] >>)
Envs ==
    { e \in [skip : {Unset, [json |-> "scalar"]},
             inline : {Unset, EmptyText} \cup Docs,
             file : {Unset, EmptyText} \cup Docs] :
        Truthy(e.inline) => e.file \in {Unset, OtherDoc} }

ManifestIdle ==
    /\ env = [skip |-> Unset, inline |-> Unset, file |-> Unset]
    /\ static_routes = <<>>
    /\ loaded = NotLoaded
    /\ log = <<>>

ManifestInit ==
    /\ env \in Envs
    /\ static_routes \in SeqsUpTo(RouteSet, MaxStatic)
    /\ loaded = NotLoaded
    /\ log = <<>>

ManifestNext == LoadRouteManifest

(***************************************************************************)
(* Passthrough route registrar                                             *)
(***************************************************************************)
MaxManifest == 3

\* Paths are sequences of characters, so that the tests on their characters
\* and the sanitised names are computed.
PathRoot == << "/" >>
PathInference == << "/", "i", "n", "f", "e", "r", "e", "n", "c", "e" >>
PathV1Inference ==
    << "/", "v", "1", "/", "i", "n", "f", "e", "r", "e", "n", "c", "e" >>
PathSpeak == << "/", "s", "p", "e", "a", "k" >>
PathDash == << "/", "a", "-", "b" >>
PathUnderscore == << "/", "a", "_", "b" >>
PathParam == << "/", "a", "/", "{", "i", "d", "}" >>
PathFavicon ==
    << "/", "f", "a", "v", "i", "c", "o", "n", ".", "i", "c", "o" >>
PathGradio ==
    << "/", "g", "r", "a", "d", "i", "o", "_", "a", "p", "i", "/", "f", "o", "o" >>
PathStaticDot == << "/", "s", "t", "a", "t", "i", "c", ".", "x" >>
PathParamDot == << "/", "{", "a", "}", ".", "b" >>
PathLogins == << "/", "l", "o", "g", "i", "n", "s" >>
PathSlashes == << "/", "/" >>

\* Route entries given to the registrar; optional keys may be absent.
RegRouteSet ==
    { [path |-> PathInference, method |-> "POST", port |-> 8020,
       stream |-> TRUE],
      [path |-> PathInference],
      [path |-> PathInference, method |-> "get", port |-> 8020,
       target_path |-> PathV1Inference],
      [path |-> PathSpeak, method |-> "POST", port |-> 8020],
      [path |-> PathDash, method |-> "GET", port |-> 8020],
      [path |-> PathUnderscore, method |-> "GET", port |-> 8020],
      [path |-> PathParam, method |-> "GET", port |-> 8020],
      [path |-> PathFavicon, method |-> "GET", port |-> 8020],
      [path |-> PathRoot, method |-> "GET", port |-> 8020],
      [method |-> "GET", port |-> 8020],
      [path |-> PathGradio, method |-> "POST", port |-> 8020],
      [path |-> PathStaticDot, method |-> "GET", port |-> 8020],
      [path |-> PathParamDot, method |-> "GET", port |-> 8020],
      [path |-> PathLogins, method |-> "GET", port |-> 8020],
      [path |-> PathSlashes, method |-> "GET", port |-> 8020] }

\* The default_port argument (DEFAULT_SERVICE_PORT of deploy_example.py).
default_port == 8080

_SKIP_PATH_PREFIXES ==
    << << "/", "s", "t", "a", "t", "i", "c" >>,
       << "/", "a", "s", "s", "e", "t", "s" >>,
       << "/", "s", "v", "e", "l", "t", "e" >>,
       << "/", "l", "o", "g", "i", "n" >>,
       << "/", "l", "o", "g", "o", "u", "t" >>,
       << "/", "g", "r", "a", "d", "i", "o", "_", "a", "p", "i" >>,
       << "/", "t", "h", "e", "m", "e" >>,
       << "/", "_", "_" >> >>
_SKIP_PATHS_EXACT == { << "/" >>, << >> }

\* str.startswith(prefix)
StartsWithPrefix(s, prefix) ==
    /\ Len(s) >= Len(prefix)
    /\ SubSeq(s, 1, Len(prefix)) = prefix

\* str.rstrip("/") and str.strip("/")
RECURSIVE RStripSlash(_)
RStripSlash(s) ==
    IF s # << >> /\ s[Len(s)] = "/"
    THEN RStripSlash(SubSeq(s, 1, Len(s) - 1))
    ELSE s
RECURSIVE LStripSlash(_)
LStripSlash(s) ==
    IF s # << >> /\ s[1] = "/" THEN LStripSlash(Tail(s)) ELSE s
StripSlash(s) == RStripSlash(LStripSlash(s))

\* _should_skip_route with the file-extension test moved after the prefix
\* test.
ShouldSkipRoutePrefixFirst(path) ==
    IF Contains(path, "{") \/ Contains(path, "}") THEN "path parameter"
    ELSE IF path \in _SKIP_PATHS_EXACT THEN "root/empty path"
    ELSE IF \E n \in 1..Len(_SKIP_PATH_PREFIXES) :
               \/ StartsWithPrefix(path, _SKIP_PATH_PREFIXES[n])
               \/ StartsWithPrefix(RStripSlash(path), _SKIP_PATH_PREFIXES[n])
         THEN "internal/UI route"
    ELSE IF Contains(path, ".") THEN "file extension in path"
    ELSE None

\* The reason to skip the route, or None if it is to be registered.
_should_skip_route(path) ==
    IF Contains(path, "{") \/ Contains(path, "}") THEN "path parameter"
    ELSE IF Contains(path, ".") THEN "file extension in path"
    ELSE IF path \in _SKIP_PATHS_EXACT THEN "root/empty path"
    ELSE IF \E n \in 1..Len(_SKIP_PATH_PREFIXES) :
               \/ StartsWithPrefix(path, _SKIP_PATH_PREFIXES[n])
               \/ StartsWithPrefix(RStripSlash(path), _SKIP_PATH_PREFIXES[n])
         THEN "internal/UI route"
    ELSE None

\* str.isalnum() on one character of the paths in use.
IsAlnum(ch) ==
    ch \in { "a", "b", "c", "d", "e", "f", "g", "h", "i", "j", "k", "l", "m",
             "n", "o", "p", "q", "r", "s", "t", "u", "v", "w", "x", "y", "z",
             "0", "1", "2", "3", "4", "5", "6", "7", "8", "9" }

_sanitize_route_name(path) ==
    LET stripped == StripSlash(path)
        cleaned == [ i \in 1..Len(stripped) |->
                       IF IsAlnum(stripped[i]) THEN stripped[i] ELSE "_" ]
    IN  IF cleaned = << >> THEN << "r", "o", "o", "t" >> ELSE cleaned

\* str.lower() on an uppercased method name, as characters.
LowerChars(method) ==
    CASE method = "GET" -> << "g", "e", "t" >>
      [] method = "POST" -> << "p", "o", "s", "t" >>
      [] OTHER -> << method >>

\* str(n) for a natural number, as characters.
Digit(d) == << "0", "1", "2", "3", "4", "5", "6", "7", "8", "9" >>[d + 1]
RECURSIVE DecimalChars(_)
DecimalChars(n) ==
    IF n < 10 THEN << Digit(n) >>
    ELSE DecimalChars(n \div 10) \o << Digit(n % 10) >>

\* The internal path without the index suffix.
InternalPathNoIndex(method, path, idx) ==
    LowerChars(method) \o << "_" >> \o _sanitize_route_name(path)

\* f"{method.lower()}_{_sanitize_route_name(path)}_{idx}"
InternalPath(method, path, idx) ==
    LowerChars(method) \o << "_" >> \o _sanitize_route_name(path)
        \o << "_" >> \o DecimalChars(idx)

\* The cord _register_single_route adds to the chute.
_register_single_route(route, idx) ==
    LET path == route.path
        method == Upper(IF "method" \in DOMAIN route THEN route.method
                        ELSE "GET")
        internal_path == InternalPath(method, path, idx)
    IN  [ path |-> internal_path,
          public_api_path |-> path,
          public_api_method |-> method,
          passthrough |-> TRUE,
          passthrough_port |->
              IF "port" \in DOMAIN route THEN route.port ELSE default_port,
          passthrough_path |->
              IF "target_path" \in DOMAIN route THEN route.target_path
              ELSE path,
          stream |-> IF "stream" \in DOMAIN route THEN route.stream ELSE FALSE,
          name |-> << "c", "o", "r", "d", "_" >> \o internal_path ]

\* route.get("path", "")
RoutePath(route) == IF "path" \in DOMAIN route THEN route.path ELSE << >>

NoCords == [cords |-> << >>, log |-> << >>]

\* The loop of register_passthrough_routes ending at the first skipped
\* route.
RECURSIVE RegisterLoopStopOnSkip(_, _, _)
RegisterLoopStopOnSkip(routes, i, st) ==
    IF i > Len(routes) THEN st
    ELSE LET path == RoutePath(routes[i])
             skip_reason == _should_skip_route(path)
         IN  IF skip_reason # None
             THEN [st EXCEPT !.log = Append(@, [level |-> "debug",
                                                path |-> path,
                                                reason |-> skip_reason])]
             ELSE RegisterLoopStopOnSkip(routes, i + 1,
                      [st EXCEPT !.cords =
                          Append(@, _register_single_route(routes[i],
                                                           Len(st.cords)))])

\* The loop of register_passthrough_routes from entry i on; the number of
\* cords registered so far is the index handed to _register_single_route.
RECURSIVE RegisterLoop(_, _, _)
RegisterLoop(routes, i, st) ==
    IF i > Len(routes) THEN st
    ELSE LET path == RoutePath(routes[i])
             skip_reason == _should_skip_route(path)
         IN  IF skip_reason # None
             THEN RegisterLoop(routes, i + 1,
                      [st EXCEPT !.log = Append(@, [level |-> "debug",
                                                    path |-> path,
                                                    reason |-> skip_reason])])
             ELSE RegisterLoop(routes, i + 1,
                      [st EXCEPT !.cords =
                          Append(@, _register_single_route(routes[i],
                                                           Len(st.cords)))])

register_passthrough_routes(routes) ==
    IF routes = << >> THEN NoCords
    ELSE LET st == RegisterLoop(routes, 1, NoCords)
         IN  [st EXCEPT !.log = Append(@, [level |-> "info",
                                           registered |-> Len(st.cords)])]

RegisterPassthroughRoutes ==
    /\ regstate = "none"
    /\ cords' = register_passthrough_routes(manifest).cords
    /\ reglog' = register_passthrough_routes(manifest).log
    /\ regstate' = "returned"
    /\ UNCHANGED <<manifest, siloVars, proxyVars, manifestVars, proberVars,
                   vendorVars,
                   launcherVars,
                   deriveVars,
                   engineVars>>

RegistrarIdle ==
    /\ manifest = << >>
    /\ cords = << >>
    /\ reglog = << >>
    /\ regstate = "none"

RegistrarInit ==
    /\ manifest \in SeqsUpTo(RegRouteSet, MaxManifest)
    /\ cords = << >>
    /\ reglog = << >>
    /\ regstate = "none"

RegistrarNext == RegisterPassthroughRoutes

(***************************************************************************)
(* Readiness prober                                                        *)
(***************************************************************************)
MaxTime == 10
MaxEndpoints == 2

LOCAL_HOST == "127.0.0.1"
\* SERVICE_PORTS of deploy_xtts_whisper.py
PortValues == {8020, 8080}
PortLists == SeqsUpTo(PortValues, MaxEndpoints)
\* The timeout argument of wait_for_services, in seconds.
WaitTimeouts == {0, 1, 2}
\* The timeout health_check hands to probe_services.
HealthProbeTimeout == 5

NoProbeCall ==
    [op |-> "none", ports |-> << >>, timeout |-> 0, start |-> 0,
     after_crash |-> FALSE]
NoProbeResult == [kind |-> "none"]

\* RuntimeError(f"Timed out waiting for {host}:{port}")
TimedOut(host, port) ==
    [kind |-> "raised", error |-> "RuntimeError",
     message |-> "Timed out waiting for", host |-> host, port |-> port]

\* f"Port {port}: {exc}"
ProbeError(port, exc) == [port |-> port, exc |-> exc]

\* A /health body that does not look at the errors.
HealthAlwaysHealthy(errs, ports) ==
    [kind |-> "returned", status |-> "healthy", ports |-> ports]

\* The body of the /health cord once probe_services has returned.
health_check(errs, ports) ==
    IF errs # << >>
    THEN [kind |-> "returned", status |-> "unhealthy", errors |-> errs]
    ELSE [kind |-> "returned", status |-> "healthy", ports |-> ports]

\* Whether the RuntimeError of _wait_for_port leaves the caller:
\* wait_for_services lets it through, probe_services catches Exception.
PropagatesAlways(op) == TRUE

Propagates(op) == op = "wait"

\* What the call returns once its loop over the ports is over.
Finish(c, errs) ==
    IF c.op = "wait" THEN [kind |-> "returned", status |-> "ok"]
    ELSE health_check(errs, c.ports)

\* asyncio.open_connection(host, port) succeeds.
Accepts(port) == port \in reach

\* The loop over the ports moves on: _wait_for_port starts for the next port
\* and computes its deadline, or the call returns.
NextPort(errs) ==
    /\ errors' = errs
    /\ IF pidx < Len(pcall.ports)
       THEN /\ pidx' = pidx + 1
            /\ pdeadline' = now + pcall.timeout
            /\ ppc' = "connect"
            /\ presult' = presult
       ELSE /\ pidx' = 0
            /\ pdeadline' = 0
            /\ ppc' = "idle"
            /\ presult' = Finish(pcall, errs)

\* Entry of wait_for_services or of health_check.
StartCall(op, ports, timeout) ==
    /\ ppc = "idle"
    /\ pcall' = [op |-> op, ports |-> ports, timeout |-> timeout,
                 start |-> now, after_crash |-> crashed]
    /\ accepted' = {}
    /\ errors' = << >>
    /\ IF ports = << >>
       THEN /\ pidx' = 0
            /\ pdeadline' = 0
            /\ ppc' = "idle"
            /\ presult' = Finish([op |-> op, ports |-> ports], << >>)
       ELSE /\ pidx' = 1
            /\ pdeadline' = now + timeout
            /\ ppc' = "connect"
            /\ presult' = NoProbeResult
    /\ UNCHANGED <<reach, now, crashed>>

WaitForServices ==
    /\ \E ports \in PortLists, timeout \in WaitTimeouts :
          StartCall("wait", ports, timeout)
    /\ UNCHANGED <<siloVars, proxyVars, manifestVars, registrarVars,
                   vendorVars,
                   launcherVars,
                   deriveVars,
                   engineVars>>

\* The cord register_health_check adds to the chute; ports is the list its
\* handler closes over.
HealthPath == << "/", "h", "e", "a", "l", "t", "h" >>
HealthCord(ports) ==
    [public_api_path |-> HealthPath, public_api_method |-> "GET",
     method |-> "GET", func |-> "health_check", ports |-> ports]

register_health_check(chute_cords, ports) ==
    Append(chute_cords, HealthCord(ports))

\* SERVICE_PORTS of the deployment: the module raises while it is loaded
\* when the list is empty (`if not SERVICE_PORTS: raise RuntimeError`).
ServicePortLists == { ports \in PortLists : ports # << >> }

\* register_health_check(chute, SERVICE_PORTS, LOCAL_HOST): called once when
\* the deployment module is loaded.
RegisterHealthCheck ==
    /\ \A k \in 1..Len(cords) : cords[k].public_api_path # HealthPath
    /\ \E ports \in ServicePortLists :
          cords' = register_health_check(cords, ports)
    /\ UNCHANGED <<manifest, reglog, regstate>>
    /\ UNCHANGED <<siloVars, proxyVars, manifestVars, proberVars,
                   vendorVars,
                   launcherVars,
                   deriveVars,
                   engineVars>>

\* GET /health: the handler of the registered cord starts probe_services
\* over the ports it was registered with.
HealthCheck ==
    /\ \E k \in 1..Len(cords) :
          /\ cords[k].public_api_path = HealthPath
          /\ StartCall("health", cords[k].ports, HealthProbeTimeout)
    /\ UNCHANGED <<siloVars, proxyVars, manifestVars, registrarVars,
                   vendorVars,
                   launcherVars,
                   deriveVars,
                   engineVars>>

\* _wait_for_port: the connection is accepted and writer.close() is called;
\* the wait then awaits writer.wait_closed().
OpenConnectionOk ==
    /\ ppc = "connect"
    /\ Accepts(pcall.ports[pidx])
    /\ accepted' = accepted \cup {pidx}
    /\ ppc' = "closing"
    /\ UNCHANGED <<reach, now, crashed, pcall, pidx, pdeadline, errors,
                   presult>>
    /\ UNCHANGED <<siloVars, proxyVars, manifestVars, registrarVars,
                   vendorVars,
                   launcherVars,
                   deriveVars,
                   engineVars>>

\* _wait_for_port: writer.wait_closed() is over and the wait returns; the
\* loop of the caller moves on.
WaitClosed ==
    /\ ppc = "closing"
    /\ NextPort(errors)
    /\ UNCHANGED <<reach, now, crashed, pcall, accepted>>
    /\ UNCHANGED <<siloVars, proxyVars, manifestVars, registrarVars,
                   vendorVars,
                   launcherVars,
                   deriveVars,
                   engineVars>>

\* _wait_for_port: OSError; past the deadline the wait raises, else it
\* sleeps before the next attempt.
OpenConnectionFails ==
    /\ ppc = "connect"
    /\ ~Accepts(pcall.ports[pidx])
    /\ IF now >= pdeadline
       THEN LET exc == TimedOut(LOCAL_HOST, pcall.ports[pidx])
            IN  IF Propagates(pcall.op)
                THEN /\ presult' = exc
                     /\ ppc' = "idle"
                     /\ pidx' = 0
                     /\ pdeadline' = 0
                     /\ errors' = errors
                ELSE NextPort(Append(errors,
                                     ProbeError(pcall.ports[pidx], exc)))
       ELSE /\ ppc' = "sleep"
            /\ UNCHANGED <<pidx, pdeadline, errors, presult>>
    /\ UNCHANGED <<reach, now, crashed, pcall, accepted>>
    /\ UNCHANGED <<siloVars, proxyVars, manifestVars, registrarVars,
                   vendorVars,
                   launcherVars,
                   deriveVars,
                   engineVars>>

\* await asyncio.sleep(1)
Sleep ==
    /\ ppc = "sleep"
    /\ now < MaxTime
    /\ now' = now + 1
    /\ ppc' = "connect"
    /\ UNCHANGED <<reach, crashed, pcall, pidx, pdeadline, accepted, errors,
                   presult>>
    /\ UNCHANGED <<siloVars, proxyVars, manifestVars, registrarVars,
                   vendorVars,
                   launcherVars,
                   deriveVars,
                   engineVars>>

\* A service of the vendor process starts to listen on its port.
PortUp ==
    /\ ~crashed
    /\ \E p \in PortValues \ reach : reach' = reach \cup {p}
    /\ UNCHANGED <<now, crashed, pcall, pidx, pdeadline, ppc, accepted,
                   errors, presult>>
    /\ UNCHANGED <<siloVars, proxyVars, manifestVars, registrarVars,
                   vendorVars,
                   launcherVars,
                   deriveVars,
                   engineVars>>

\* The vendor process dies: none of its ports accepts a connection from now
\* on (nothing restarts it).
VendorCrash ==
    /\ ~crashed
    /\ crashed' = TRUE
    /\ reach' = {}
    /\ UNCHANGED <<now, pcall, pidx, pdeadline, ppc, accepted, errors,
                   presult>>
    /\ UNCHANGED <<siloVars, proxyVars, manifestVars, registrarVars,
                   vendorVars,
                   launcherVars,
                   deriveVars,
                   engineVars>>

ProberIdle ==
    /\ reach = {}
    /\ now = 0
    /\ crashed = FALSE
    /\ pcall = NoProbeCall
    /\ pidx = 0
    /\ pdeadline = 0
    /\ ppc = "idle"
    /\ accepted = {}
    /\ errors = << >>
    /\ presult = NoProbeResult

ProberInit == ProberIdle

ProberNext ==
    \/ WaitForServices
    \/ RegisterHealthCheck
    \/ HealthCheck
    \/ OpenConnectionOk
    \/ WaitClosed
    \/ OpenConnectionFails
    \/ Sleep
    \/ PortUp
    \/ VendorCrash

(***************************************************************************)
(* Vendor process supervisor                                               *)
(***************************************************************************)
MaxStops == 3

\* signal.SIGTERM sent by stop() first (mutation: the forced kill at once).
KillAtOnce == "SIGKILL"

GracefulSignal == "SIGTERM"
\* Popen.kill()
ForcedSignal == "SIGKILL"

\* proc.poll() is None: the process has not exited.
PollIsNone(p) == p = "running"

\* Popen.send_signal: nothing is sent to a process that has exited.
SendSignal(p, sigs, sig) == IF PollIsNone(p) THEN Append(sigs, sig) ELSE sigs

\* `if self.container_name:` with the removal nested in the branch taken for
\* a running process.
ShouldRemoveIfRunning(name, rec) == name # None /\ ~rec.exited_at_entry

\* `if self.container_name:` skipped after a forced kill.
ShouldRemoveUnlessKilled(name, rec) == name # None /\ ~rec.timed_out

\* `if self.container_name:`
ShouldRemove(name, rec) == name # None

\* The stop() call in progress: what it found and did so far.
NoStopCall ==
    [exited_at_entry |-> FALSE, signals |-> << >>, timed_out |-> FALSE,
     removed |-> FALSE, exited_at_return |-> FALSE]

\* Where the supervised process is in its life.
Lifecycle(l, p, sigs) ==
    IF l = "none" THEN "NotStarted"
    ELSE IF l = "starting" THEN "Starting"
    ELSE IF p = "exited" THEN "Stopped"
    ELSE IF sigs # << >> THEN "Stopping"
    ELSE "Running"

\* The life of the process so far, one entry per state it went through.
Observe(l, p, sigs) ==
    visited' = IF Lifecycle(l, p, sigs) = visited[Len(visited)] THEN visited
               ELSE Append(visited, Lifecycle(l, p, sigs))

\* launch_vendor_process up to the Popen: os.path.exists(entrypoint) selects
\* the native entrypoint or the docker fallback with a container name.
LaunchBegin ==
    /\ launch = "none"
    /\ launch' = "starting"
    /\ \E exists \in BOOLEAN :
          container_name' = IF exists THEN None ELSE "label-pid-uuid"
    /\ UNCHANGED <<proc, container, spc, cur, stoplog, signals>>
    /\ Observe(launch', proc', signals')
    /\ UNCHANGED <<siloVars, proxyVars, manifestVars, registrarVars,
                   proberVars,
                   launcherVars,
                   deriveVars,
                   engineVars>>

\* subprocess.Popen: the process (bash, or the docker run client with its
\* container) is spawned and the handle returned.
LaunchSpawn ==
    /\ launch = "starting"
    /\ launch' = "spawned"
    /\ proc' = "running"
    /\ container' = IF container_name # None THEN "present" ELSE container
    /\ UNCHANGED <<container_name, spc, cur, stoplog, signals>>
    /\ Observe(launch', proc', signals')
    /\ UNCHANGED <<siloVars, proxyVars, manifestVars, registrarVars,
                   proberVars,
                   launcherVars,
                   deriveVars,
                   engineVars>>

\* The process exits: by itself, on the signal it was sent, or killed.
ProcExits ==
    /\ proc = "running"
    /\ proc' = "exited"
    /\ UNCHANGED <<launch, container_name, container, spc, cur, stoplog,
                   signals>>
    /\ Observe(launch', proc', signals')
    /\ UNCHANGED <<siloVars, proxyVars, manifestVars, registrarVars,
                   proberVars,
                   launcherVars,
                   deriveVars,
                   engineVars>>

\* stop() is called: `if self.proc and self.proc.poll() is None`
StopEnter ==
    /\ launch = "spawned"
    /\ spc = "idle"
    /\ Len(stoplog) < MaxStops
    /\ cur' = [NoStopCall EXCEPT !.exited_at_entry = ~PollIsNone(proc)]
    /\ spc' = IF PollIsNone(proc) THEN "signal" ELSE "remove"
    /\ UNCHANGED <<launch, container_name, proc, container, stoplog, signals>>
    /\ Observe(launch', proc', signals')
    /\ UNCHANGED <<siloVars, proxyVars, manifestVars, registrarVars,
                   proberVars,
                   launcherVars,
                   deriveVars,
                   engineVars>>

\* self.proc.send_signal(signal.SIGTERM)
StopSendTerm ==
    /\ spc = "signal"
    /\ signals' = SendSignal(proc, signals, GracefulSignal)
    /\ cur' = [cur EXCEPT !.signals = SendSignal(proc, @, GracefulSignal)]
    /\ spc' = "wait"
    /\ UNCHANGED <<launch, container_name, proc, container, stoplog>>
    /\ Observe(launch', proc', signals')
    /\ UNCHANGED <<siloVars, proxyVars, manifestVars, registrarVars,
                   proberVars,
                   launcherVars,
                   deriveVars,
                   engineVars>>

\* self.proc.wait(timeout=10) returns: the process exited in time.
StopWaitReturns ==
    /\ spc = "wait"
    /\ ~PollIsNone(proc)
    /\ spc' = "remove"
    /\ UNCHANGED <<launch, container_name, proc, container, cur, stoplog,
                   signals>>
    /\ Observe(launch', proc', signals')
    /\ UNCHANGED <<siloVars, proxyVars, manifestVars, registrarVars,
                   proberVars,
                   launcherVars,
                   deriveVars,
                   engineVars>>

\* self.proc.wait(timeout=10) raises TimeoutExpired: the grace period is over
\* and the process has not exited.
StopWaitTimeout ==
    /\ spc = "wait"
    /\ PollIsNone(proc)
    /\ cur' = [cur EXCEPT !.timed_out = TRUE]
    /\ spc' = "kill"
    /\ UNCHANGED <<launch, container_name, proc, container, stoplog, signals>>
    /\ Observe(launch', proc', signals')
    /\ UNCHANGED <<siloVars, proxyVars, manifestVars, registrarVars,
                   proberVars,
                   launcherVars,
                   deriveVars,
                   engineVars>>

\* self.proc.kill(); the call does not wait for the process to die.
StopKill ==
    /\ spc = "kill"
    /\ signals' = SendSignal(proc, signals, ForcedSignal)
    /\ cur' = [cur EXCEPT !.signals = SendSignal(proc, @, ForcedSignal)]
    /\ spc' = "remove"
    /\ UNCHANGED <<launch, container_name, proc, container, stoplog>>
    /\ Observe(launch', proc', signals')
    /\ UNCHANGED <<siloVars, proxyVars, manifestVars, registrarVars,
                   proberVars,
                   launcherVars,
                   deriveVars,
                   engineVars>>

\* `if self.container_name: subprocess.run(["docker", "rm", "-f", ...])`,
\* then stop() returns.
StopRemoveAndReturn ==
    /\ spc = "remove"
    /\ LET remove == ShouldRemove(container_name, cur)
       IN  /\ container' = IF remove THEN "removed" ELSE container
           /\ stoplog' = Append(stoplog,
                  [cur EXCEPT !.removed = remove,
                              !.exited_at_return = ~PollIsNone(proc)])
    /\ cur' = NoStopCall
    /\ spc' = "idle"
    /\ UNCHANGED <<launch, container_name, proc, signals>>
    /\ Observe(launch', proc', signals')
    /\ UNCHANGED <<siloVars, proxyVars, manifestVars, registrarVars,
                   proberVars,
                   launcherVars,
                   deriveVars,
                   engineVars>>

VendorIdle ==
    /\ launch = "none"
    /\ container_name = None
    /\ proc = "not_started"
    /\ container = "none"
    /\ spc = "idle"
    /\ cur = NoStopCall
    /\ stoplog = << >>
    /\ signals = << >>
    /\ visited = << "NotStarted" >>

VendorInit == VendorIdle

VendorNext ==
    \/ LaunchBegin
    \/ LaunchSpawn
    \/ ProcExits
    \/ StopEnter
    \/ StopSendTerm
    \/ StopWaitReturns
    \/ StopWaitTimeout
    \/ StopKill
    \/ StopRemoveAndReturn

(***************************************************************************)
(* Vendor launcher: launch_vendor_process   (src/vendor_launcher.py)       *)
(*                                                                         *)
(* One launch_vendor_process call on a host.  The host says whether the   *)
(* entrypoint file exists, what the docker client does, whether           *)
(* nvidia-smi and the nvidia container runtime are installed, and what    *)
(* os.environ holds; the call's arguments are the port lists and the name *)
(* of the GPU override variable.                                          *)
(***************************************************************************)

\* The arguments every deployment passes unchanged.
label == "xtts"
entrypoint == "/app/entrypoint.sh"
vendor_image == "vendor:latest"
env_keys == << "HF_TOKEN" >>
env_prefixes == << "XTTS_" >>

\* os.environ, as the (key, value) items in dictionary order.
EnvironItems(hf, xtts, gpu) ==
    (IF hf THEN << [key |-> "HF_TOKEN", value |-> "t"] >> ELSE << >>)
    \o (IF xtts THEN << [key |-> "XTTS_MODEL", value |-> "v2"] >> ELSE << >>)
    \o (IF gpu # None THEN << [key |-> "DEV_GPUS", value |-> gpu] >>
                      ELSE << >>)

Environs ==
    { EnvironItems(hf, xtts, gpu) :
        hf \in BOOLEAN, xtts \in BOOLEAN, gpu \in {None, "", "device=0"} }

\* "missing": no docker executable; "run_fails": docker run exits non-zero
\* (unknown image, daemon down); "ok": the container starts.
DockerStates == {"missing", "run_fails", "ok"}

Hosts ==
    [entrypoint_exists : BOOLEAN,
     docker : DockerStates,
     nvidia_smi : BOOLEAN,
     nvidia_container_runtime : BOOLEAN,
     pid : {4242},
     uuid : {"3cdb26", "1ebc46"},
     environ : Environs]

LaunchArgs ==
    [service_ports : {<< 8020 >>, << 8020, 8080 >>},
     whisper_ports : {<< >>, << 8080 >>},
     dev_gpu_env : {None, "DEV_GPUS"}]

\* os.getenv(key)
Getenv(environ, key) ==
    IF \E i \in 1..Len(environ) : environ[i].key = key
    THEN environ[CHOOSE i \in 1..Len(environ) : environ[i].key = key].value
    ELSE None

\* str.startswith on Python strings
StrStartsWith(s, prefix) ==
    /\ Len(s) >= Len(prefix)
    /\ SubSeq(s, 1, Len(prefix)) = prefix

\* flags.extend(...) over the items of a loop, in loop order
RECURSIVE Extend(_)
Extend(parts) ==
    IF parts = << >> THEN << >> ELSE Head(parts) \o Extend(Tail(parts))

\* _gpu_flags that takes the nvidia runtime for granted
GpuFlagsAssumeNvidia(h, override) ==
    IF override # None /\ override # ""
    THEN << "--gpus", override >>
    ELSE << "--gpus", "all" >>

_gpu_flags(h, override) ==
    IF override # None /\ override # ""
    THEN << "--gpus", override >>
    ELSE IF h.nvidia_smi
         THEN << "--gpus", "all" >>
              \o (IF h.nvidia_container_runtime
                  THEN << "--runtime", "nvidia" >> ELSE << >>)
         ELSE << >>

_env_flags(environ, keys, prefixes) ==
    Extend([i \in 1..Len(keys) |->
              IF Getenv(environ, keys[i]) # None
              THEN << "-e", keys[i] \o "=" \o Getenv(environ, keys[i]) >>
              ELSE << >>])
    \o Extend([i \in 1..Len(prefixes) |->
                Extend([j \in 1..Len(environ) |->
                          IF StrStartsWith(environ[j].key, prefixes[i])
                          THEN << "-e", environ[j].key \o "="
                                        \o environ[j].value >>
                          ELSE << >>])])

\* f"{port}:{port}"
PortMapping(port) == ToString(port) \o ":" \o ToString(port)

\* port_flags that publishes the first port only
PortFlagsFirstOnly(ports) ==
    IF ports = << >> THEN << >> ELSE << "-p", PortMapping(ports[1]) >>

port_flags(ports) ==
    Extend([i \in 1..Len(ports) |-> << "-p", PortMapping(ports[i]) >>])

\* f"{label}-{os.getpid()}-{uuid4().hex[:6]}"
ContainerName(h) == label \o "-" \o ToString(h.pid) \o "-" \o h.uuid

\* VendorProcessHandle(proc=Popen(args), container_name=name)
VendorProcessHandle(args, name) ==
    [kind |-> "returned",
     handle |-> [proc |-> [args |-> args], container_name |-> name]]

LaunchRaised(exc) == [kind |-> "raised", exc |-> exc]

launch_vendor_process(h, a) ==
    IF h.entrypoint_exists
    THEN VendorProcessHandle(<< "bash", "-lc", entrypoint >>, None)
    ELSE LET name == ContainerName(h)
             ports == port_flags(a.service_ports \o a.whisper_ports)
             envs == _env_flags(h.environ, env_keys, env_prefixes)
             gpu_override == IF a.dev_gpu_env # None
                             THEN Getenv(h.environ, a.dev_gpu_env)
                             ELSE None
             gpus == _gpu_flags(h, gpu_override)
             cmd == << "docker", "run", "--rm", "--name", name >>
                    \o gpus \o ports \o envs \o << vendor_image >>
         IN  IF h.docker = "missing"
             THEN \* subprocess.run(["docker", "rm", ...]) finds no executable
                  LaunchRaised("FileNotFoundError")
             ELSE \* Popen returns as soon as the docker client is spawned
                  VendorProcessHandle(cmd, name)

NotLaunched == [kind |-> "none"]

LaunchVendorProcess ==
    /\ launched = NotLaunched
    /\ launched' = launch_vendor_process(machine, largs)
    /\ UNCHANGED <<machine, largs>>
    /\ UNCHANGED <<siloVars, proxyVars, manifestVars, registrarVars,
                   proberVars, vendorVars,
                   deriveVars,
                   engineVars>>

LauncherIdle ==
    /\ machine = [entrypoint_exists |-> TRUE, docker |-> "ok",
               nvidia_smi |-> FALSE, nvidia_container_runtime |-> FALSE,
               pid |-> 4242, uuid |-> "3cdb26", environ |-> << >>]
    /\ largs = [service_ports |-> << 8020 >>, whisper_ports |-> << >>,
                dev_gpu_env |-> None]
    /\ launched = NotLaunched

LauncherInit ==
    /\ machine \in Hosts
    /\ largs \in LaunchArgs
    /\ launched = NotLaunched

LauncherNext == LaunchVendorProcess

(***************************************************************************)
(* Key derivation: add_user_id_to_context and _get_user_id, request after  *)
(* request on one task   (src/deploy_xtts_whisper.py)                      *)
(*                                                                         *)
(* Each request sets the context variable from its silo_id / X-Silo-ID,   *)
(* the proxy helper derives the key, and the middleware resets the        *)
(* variable.  `derived` keeps, for every request served, what it carried  *)
(* and the key that was derived for it.                                   *)
(***************************************************************************)
MaxRequests == 3

NotServing == [pc |-> "idle"]

\* add_user_id_to_context up to `await call_next(request)`: the identifier
\* of the request is set in the context.
ServeEntry ==
    /\ serving = NotServing
    /\ Len(derived) < MaxRequests
    /\ \E r \in Requests :
         LET s == ContextVarSet(kctx, RequestUserId(r))
         IN  /\ kctx' = s.value
             /\ serving' = [pc |-> "entered", request |-> r,
                            token |-> s.token, key |-> None]
    /\ UNCHANGED derived
    /\ UNCHANGED <<siloVars, proxyVars, manifestVars, registrarVars,
                   proberVars, vendorVars, launcherVars,
                   engineVars>>

\* Inside call_next: the cord of the request runs. The POST helpers derive
\* the key from the context (user_silo = _get_user_id()); _proxy_get does
\* not read it and the request gets no key.
ServeHandler ==
    /\ serving.pc = "entered"
    /\ \E mode \in {"get", "post_json", "post_multipart"} :
         serving' = [serving EXCEPT
                        !.pc = "handled",
                        !.key = IF mode = "get" THEN None
                                ELSE _get_user_id(kctx)]
    /\ UNCHANGED <<kctx, derived>>
    /\ UNCHANGED <<siloVars, proxyVars, manifestVars, registrarVars,
                   proberVars, vendorVars, launcherVars,
                   engineVars>>

\* call_next returns or raises, after the cord has run or before any cord
\* runs (no route matches, an earlier middleware fails); the finally block
\* resets the context.
ServeExit ==
    /\ serving.pc \in {"entered", "handled"}
    /\ \E how \in {"returned", "raised"} :
         kctx' = ExitContext(kctx, serving.token, how)
    /\ derived' = Append(derived, [request |-> serving.request,
                                   key |-> serving.key])
    /\ serving' = NotServing
    /\ UNCHANGED <<siloVars, proxyVars, manifestVars, registrarVars,
                   proberVars, vendorVars, launcherVars,
                   engineVars>>

DeriveIdle ==
    /\ kctx = MISSING
    /\ serving = NotServing
    /\ derived = << >>

DeriveInit == DeriveIdle

DeriveNext == ServeEntry \/ ServeHandler \/ ServeExit

(***************************************************************************)
(* Synthesis engines: HiggsAudioEngine, VibeVoiceEngine, ZonosEngine       *)
(* (src/deploy_higgs_whisper.py, deploy_vibevoice_whisper.py,              *)
(*  deploy_zonos_whisper.py)                                               *)
(*                                                                         *)
(* One engine object, created at startup, and the /speak requests that    *)
(* call its synthesize concurrently on the event loop.  synthesize        *)
(* prepares its inputs, enters `async with self._lock`, and awaits        *)
(* _generate in the default executor; the steps of a call are the pieces  *)
(* between its awaits.                                                    *)
(***************************************************************************)
NumCallers == 3
\* The worker threads a cancelled task may leave behind at one time.
MaxOrphans == 1
Callers == 1..NumCallers
Engines == {"higgs", "vibevoice", "zonos"}

\* asyncio.Lock(): _locked, the queue of waiters, the waiters whose future
\* has been completed by a release, and the waiters whose future was
\* cancelled and who have not left the queue yet.
NewLock == [locked |-> FALSE, waiters |-> << >>, woken |-> {},
            cancelled |-> {}]

\* Lock.acquire up to its await: taken at once when the lock is free and
\* every waiter in the queue is cancelled, otherwise the caller joins the
\* queue.
CanLockAtOnce(lk) ==
    /\ ~lk.locked
    /\ \A i \in 1..Len(lk.waiters) : lk.waiters[i] \in lk.cancelled
LockAtOnce(lk) == [lk EXCEPT !.locked = TRUE]
Enqueue(lk, t) == [lk EXCEPT !.waiters = Append(@, t)]

\* Lock.acquire after its await: the waiter leaves the queue and locks.
Resume(lk, t) ==
    [lk EXCEPT !.waiters = SelectSeq(@, LAMBDA w : w # t),
               !.woken = @ \ {t},
               !.locked = TRUE]

\* Lock._wake_up_first: the future of the first waiter is completed unless
\* it is done already (completed before, or cancelled).
_wake_up_first(lk) ==
    IF lk.waiters = << >> THEN lk
    ELSE IF Head(lk.waiters) \in lk.woken \cup lk.cancelled THEN lk
    ELSE [lk EXCEPT !.woken = @ \cup {Head(lk.waiters)}]

\* Lock.release: unlock and wake the first waiter.
Release(lk) == _wake_up_first([lk EXCEPT !.locked = FALSE])

\* `async with self._lock`: __aexit__ releases however the block is left.
ReleaseOnExit(lk, how) == Release(lk)

\* Task.cancel() on a task inside Lock.acquire: the future it awaits is
\* cancelled, unless a release has completed it already.
CancelWaiter(lk, t) ==
    IF t \in lk.woken THEN lk ELSE [lk EXCEPT !.cancelled = @ \cup {t}]

\* Lock.acquire resumed with CancelledError: the waiter leaves the queue
\* and, the lock being free, wakes the first waiter.
LeaveQueue(lk, t) ==
    LET left == [lk EXCEPT !.waiters = SelectSeq(@, LAMBDA w : w # t),
                           !.woken = @ \ {t},
                           !.cancelled = @ \ {t}]
    IN  IF left.locked THEN left ELSE _wake_up_first(left)

\* How a _generate ends in its worker thread.
GenerateOutcomes == {"returned", "Exception", "BaseException",
                     "StopIteration"}

\* What the callback of the loop makes of the future of run_in_executor:
\* the worker's result or exception is copied into it.  StopIteration is
\* the exception: up to Python 3.12 (the engine images are built on
\* parachutes/base-python:3.12.9) Future.set_exception refuses it with a
\* TypeError inside the callback and the future is never completed; from
\* 3.13 on the future is completed with a RuntimeError, an Exception.
Pending == "<pending>"
FutureAfter(how) ==
    IF how = "StopIteration" THEN {Pending, "Exception"} ELSE {how}

\* What the caller of synthesize gets from the completed future: the value,
\* HTTPException(500) for an Exception, and the exception itself for a
\* BaseException that `except Exception` does not catch.
SynthesizeOutcome(how) ==
    CASE how = "returned" -> "returned"
      [] how = "Exception" -> "HTTPException_500"
      [] how = "BaseException" -> "BaseException"

\* synthesize up to `async with self._lock`: the inputs are prepared, and
\* the preparation may raise (empty text, unreadable voice sample).
SynthesizeCall(t) ==
    /\ epc[t] = "idle"
    /\ \E prepared \in BOOLEAN :
         /\ epc' = [epc EXCEPT ![t] = IF prepared THEN "acquire" ELSE "idle"]
         /\ eoutcome' = [eoutcome EXCEPT ![t] =
                           IF prepared THEN None ELSE "raised"]
    /\ waited' = [waited EXCEPT ![t] = FALSE]
    /\ UNCHANGED <<engine, lock, generating, ended, future, orphans>>
    /\ UNCHANGED <<siloVars, proxyVars, manifestVars, registrarVars,
                   proberVars, vendorVars, launcherVars, deriveVars>>

\* __aenter__: Lock.acquire up to its await.
LockAcquire(t) ==
    /\ epc[t] = "acquire"
    /\ IF CanLockAtOnce(lock)
       THEN /\ lock' = LockAtOnce(lock)
            /\ epc' = [epc EXCEPT ![t] = "holding"]
            /\ UNCHANGED waited
       ELSE /\ lock' = Enqueue(lock, t)
            /\ epc' = [epc EXCEPT ![t] = "waiting"]
            /\ waited' = [waited EXCEPT ![t] = TRUE]
    /\ UNCHANGED <<engine, generating, ended, future, orphans, eoutcome>>
    /\ UNCHANGED <<siloVars, proxyVars, manifestVars, registrarVars,
                   proberVars, vendorVars, launcherVars, deriveVars>>

\* The waiter's future was completed: acquire goes on and takes the lock.
LockResume(t) ==
    /\ epc[t] = "waiting"
    /\ t \in lock.woken
    /\ lock' = Resume(lock, t)
    /\ epc' = [epc EXCEPT ![t] = "holding"]
    /\ UNCHANGED <<engine, generating, ended, future, orphans, eoutcome,
                   waited>>
    /\ UNCHANGED <<siloVars, proxyVars, manifestVars, registrarVars,
                   proberVars, vendorVars, launcherVars, deriveVars>>

\* ZonosEngine loads the voice inside the lock and outside the try: an
\* error there leaves the `async with` block before any generation.
LoadVoiceFails(t) ==
    /\ engine = "zonos"
    /\ epc[t] = "holding"
    /\ lock' = ReleaseOnExit(lock, "raised")
    /\ epc' = [epc EXCEPT ![t] = "idle"]
    /\ eoutcome' = [eoutcome EXCEPT ![t] = "raised"]
    /\ UNCHANGED <<engine, generating, ended, future, orphans, waited>>
    /\ UNCHANGED <<siloVars, proxyVars, manifestVars, registrarVars,
                   proberVars, vendorVars, launcherVars, deriveVars>>

\* loop.run_in_executor(None, self._generate, ...): _generate starts in a
\* worker thread and the call awaits the future of it.
RunInExecutor(t) ==
    /\ epc[t] = "holding"
    /\ generating' = generating \cup {t}
    /\ ended' = [ended EXCEPT ![t] = None]
    /\ future' = [future EXCEPT ![t] = Pending]
    /\ epc' = [epc EXCEPT ![t] = "awaiting"]
    /\ UNCHANGED <<engine, lock, orphans, eoutcome, waited>>
    /\ UNCHANGED <<siloVars, proxyVars, manifestVars, registrarVars,
                   proberVars, vendorVars, launcherVars, deriveVars>>

\* _generate returns or raises in its worker thread, which queues the
\* callback of the future on the loop (call_soon_threadsafe).  The future
\* of a task that was cancelled is cancelled already: its callback does
\* nothing.
GenerateReturns(t) ==
    /\ t \in generating
    /\ generating' = generating \ {t}
    /\ \E how \in GenerateOutcomes :
         ended' = [ended EXCEPT ![t] =
                     IF epc[t] = "awaiting" THEN how ELSE @]
    /\ UNCHANGED <<engine, lock, epc, future, orphans, eoutcome, waited>>
    /\ UNCHANGED <<siloVars, proxyVars, manifestVars, registrarVars,
                   proberVars, vendorVars, launcherVars, deriveVars>>

\* The loop runs the callback: the future the call awaits is completed
\* with what the thread ended with, when the future can hold that.
FutureSetState(t) ==
    /\ epc[t] = "awaiting"
    /\ ended[t] # None
    /\ \E state \in FutureAfter(ended[t]) :
         future' = [future EXCEPT ![t] = state]
    /\ ended' = [ended EXCEPT ![t] = None]
    /\ UNCHANGED <<engine, lock, epc, generating, orphans, eoutcome, waited>>
    /\ UNCHANGED <<siloVars, proxyVars, manifestVars, registrarVars,
                   proberVars, vendorVars, launcherVars, deriveVars>>

\* The future is complete and the call runs again: the value is returned,
\* an Exception becomes HTTPException(500), a BaseException passes through;
\* either way the `async with` block is left.
GenerateEnds(t) ==
    /\ epc[t] = "awaiting"
    /\ future[t] # Pending
    /\ lock' = ReleaseOnExit(lock, future[t])
    /\ eoutcome' = [eoutcome EXCEPT ![t] = SynthesizeOutcome(future[t])]
    /\ future' = [future EXCEPT ![t] = Pending]
    /\ epc' = [epc EXCEPT ![t] = "idle"]
    /\ UNCHANGED <<engine, generating, ended, orphans, waited>>
    /\ UNCHANGED <<siloVars, proxyVars, manifestVars, registrarVars,
                   proberVars, vendorVars, launcherVars, deriveVars>>

\* The task of a call that waits for the lock is cancelled by whoever
\* awaits synthesize.
CancelWaiting(t) ==
    /\ epc[t] = "waiting"
    /\ lock' = CancelWaiter(lock, t)
    /\ epc' = [epc EXCEPT ![t] = "cancelling"]
    /\ UNCHANGED <<engine, generating, ended, future, orphans, eoutcome,
                   waited>>
    /\ UNCHANGED <<siloVars, proxyVars, manifestVars, registrarVars,
                   proberVars, vendorVars, launcherVars, deriveVars>>

\* The cancelled task runs again: CancelledError leaves Lock.acquire and
\* synthesize.
CancelledInAcquire(t) ==
    /\ epc[t] = "cancelling"
    /\ lock' = LeaveQueue(lock, t)
    /\ epc' = [epc EXCEPT ![t] = "idle"]
    /\ eoutcome' = [eoutcome EXCEPT ![t] = "cancelled"]
    /\ UNCHANGED <<engine, generating, ended, future, orphans, waited>>
    /\ UNCHANGED <<siloVars, proxyVars, manifestVars, registrarVars,
                   proberVars, vendorVars, launcherVars, deriveVars>>

\* The task awaiting run_in_executor is cancelled, whether the future is
\* pending or complete: the task will run again with CancelledError.  The
\* worker thread, when it is still inside _generate, is not stopped.
CancelGenerating(t) ==
    /\ epc[t] = "awaiting"
    /\ t \in generating => orphans < MaxOrphans
    /\ epc' = [epc EXCEPT ![t] = "cancelled"]
    /\ UNCHANGED <<engine, lock, generating, ended, future, orphans,
                   eoutcome, waited>>
    /\ UNCHANGED <<siloVars, proxyVars, manifestVars, registrarVars,
                   proberVars, vendorVars, launcherVars, deriveVars>>

\* The cancelled task runs again: CancelledError, which `except Exception`
\* does not catch, leaves the `async with` block and the lock is released.
\* A _generate that has not ended yet goes on in its thread, awaited by
\* nobody.
CancelledInAwait(t) ==
    /\ epc[t] = "cancelled"
    /\ lock' = ReleaseOnExit(lock, "cancelled")
    /\ eoutcome' = [eoutcome EXCEPT ![t] = "cancelled"]
    /\ generating' = generating \ {t}
    /\ orphans' = IF t \in generating THEN orphans + 1 ELSE orphans
    /\ ended' = [ended EXCEPT ![t] = None]
    /\ future' = [future EXCEPT ![t] = Pending]
    /\ epc' = [epc EXCEPT ![t] = "idle"]
    /\ UNCHANGED <<engine, waited>>
    /\ UNCHANGED <<siloVars, proxyVars, manifestVars, registrarVars,
                   proberVars, vendorVars, launcherVars, deriveVars>>

\* A _generate nobody awaits any more ends in its worker thread.
OrphanEnds ==
    /\ orphans > 0
    /\ orphans' = orphans - 1
    /\ UNCHANGED <<engine, lock, epc, generating, ended, future, eoutcome,
                   waited>>
    /\ UNCHANGED <<siloVars, proxyVars, manifestVars, registrarVars,
                   proberVars, vendorVars, launcherVars, deriveVars>>

EngineIdle ==
    /\ engine = "higgs"
    /\ lock = NewLock
    /\ epc = [t \in Callers |-> "idle"]
    /\ generating = {}
    /\ ended = [t \in Callers |-> None]
    /\ future = [t \in Callers |-> Pending]
    /\ orphans = 0
    /\ eoutcome = [t \in Callers |-> None]
    /\ waited = [t \in Callers |-> FALSE]

EngineInit ==
    /\ engine \in Engines
    /\ lock = NewLock
    /\ epc = [t \in Callers |-> "idle"]
    /\ generating = {}
    /\ ended = [t \in Callers |-> None]
    /\ future = [t \in Callers |-> Pending]
    /\ orphans = 0
    /\ eoutcome = [t \in Callers |-> None]
    /\ waited = [t \in Callers |-> FALSE]

\* The steps of synthesize calls that are awaited to their end.
EngineNext ==
    \E t \in Callers :
        \/ SynthesizeCall(t)
        \/ LockAcquire(t)
        \/ LockResume(t)
        \/ LoadVoiceFails(t)
        \/ RunInExecutor(t)
        \/ GenerateReturns(t)
        \/ FutureSetState(t)
        \/ GenerateEnds(t)

\* The steps that a cancellation of the calling task adds.  No code of the
\* repository cancels these tasks; it would be whoever awaits synthesize.
CancelNext ==
    \/ \E t \in Callers :
        \/ CancelWaiting(t)
        \/ CancelledInAcquire(t)
        \/ CancelGenerating(t)
        \/ CancelledInAwait(t)
    \/ OrphanEnds

\* The event loop runs every callback that is ready, and a _generate that
\* was started ends in its thread.  A call whose future is never completed
\* has no step to take.
EngineFairness ==
    \A t \in Callers :
        /\ WF_vars(LockAcquire(t))
        /\ WF_vars(LockResume(t))
        /\ WF_vars(RunInExecutor(t))
        /\ WF_vars(GenerateReturns(t))
        /\ WF_vars(FutureSetState(t))
        /\ WF_vars(GenerateEnds(t))

(***************************************************************************)
(* Specifications                                                          *)
(***************************************************************************)
OthersIdle ==
    /\ RegistrarIdle /\ ProberIdle /\ VendorIdle
    /\ LauncherIdle /\ DeriveIdle /\ EngineIdle
InitSilo == SiloInit /\ ProxyIdle /\ ManifestIdle /\ OthersIdle
InitProxy == SiloInit /\ ProxyInit /\ ManifestIdle /\ OthersIdle
InitMultipart == SiloInit /\ MultipartInit /\ ManifestIdle /\ OthersIdle
InitWhisperLoad ==
    SiloInit /\ WhisperLoadInit /\ ManifestIdle /\ OthersIdle
InitManifest == SiloInit /\ ProxyIdle /\ ManifestInit /\ OthersIdle
InitRegistrar ==
    /\ SiloInit /\ ProxyIdle /\ ManifestIdle
    /\ RegistrarInit /\ ProberIdle /\ VendorIdle
    /\ LauncherIdle /\ DeriveIdle /\ EngineIdle
InitProber ==
    /\ SiloInit /\ ProxyIdle /\ ManifestIdle
    /\ RegistrarIdle /\ ProberInit /\ VendorIdle
    /\ LauncherIdle /\ DeriveIdle /\ EngineIdle
InitVendor ==
    /\ SiloInit /\ ProxyIdle /\ ManifestIdle
    /\ RegistrarIdle /\ ProberIdle /\ VendorInit
    /\ LauncherIdle /\ DeriveIdle /\ EngineIdle
InitLauncher ==
    /\ SiloInit /\ ProxyIdle /\ ManifestIdle
    /\ RegistrarIdle /\ ProberIdle /\ VendorIdle /\ LauncherInit
    /\ DeriveIdle /\ EngineIdle
InitDerive ==
    /\ SiloInit /\ ProxyIdle /\ ManifestIdle
    /\ RegistrarIdle /\ ProberIdle /\ VendorIdle /\ LauncherIdle
    /\ DeriveInit /\ EngineIdle
InitEngine ==
    /\ SiloInit /\ ProxyIdle /\ ManifestIdle
    /\ RegistrarIdle /\ ProberIdle /\ VendorIdle /\ LauncherIdle
    /\ DeriveIdle /\ EngineInit

\* Concurrent requests through the siloing middleware.
SpecSilo == InitSilo /\ [][SiloNext]_vars
\* One forwarding call, for every call and every upstream behaviour.
SpecProxy == InitProxy /\ [][ProxyNext]_vars
\* One _proxy_post_multipart call, for payloads with audio, nested and null
\* values.
SpecMultipart == InitMultipart /\ [][MultipartNext]_vars
\* One GET /load call on the whisper cord, for every upstream answer.
SpecWhisperLoad == InitWhisperLoad /\ [][WhisperLoadNext]_vars
\* One load_route_manifest call, for every environment and static list.
SpecManifest == InitManifest /\ [][ManifestNext]_vars
\* One register_passthrough_routes call, for every manifest.
SpecRegistrar == InitRegistrar /\ [][RegistrarNext]_vars
\* Readiness waits and health checks while the vendor ports come up and die.
SpecProber == InitProber /\ [][ProberNext]_vars
\* One launch of the vendor process, its exit, and stop() calls in turn.
SpecVendor == InitVendor /\ [][VendorNext]_vars
\* One launch_vendor_process call, for every host and argument list.
SpecLauncher == InitLauncher /\ [][LauncherNext]_vars
\* Requests served in turn, each deriving its siloing key.
SpecDerive == InitDerive /\ [][DeriveNext]_vars
\* Concurrent synthesize calls on one engine, each awaited to its end.
SpecEngine == InitEngine /\ [][EngineNext]_vars
\* The same, on an event loop that runs what is ready.
SpecEngineLive == SpecEngine /\ EngineFairness
\* The same calls when whoever awaits synthesize may cancel their tasks.
SpecEngineCancel == InitEngine /\ [][EngineNext \/ CancelNext]_vars

Init == InitSilo
Next == SiloNext
Spec == Init /\ [][Next]_vars

(***************************************************************************)
(* Properties: request siloing (SpecSilo)                                  *)
(***************************************************************************)

\* The key derived from the identifier a request carries.
OwnKey(r) == _get_user_id(RequestUserId(r))

\* C1: concurrent isolation. While a request is in flight, the key its proxy
\* helper read, and the key any read of _get_user_id in its context would
\* return, is the key derived from its own silo_id / X-Silo-ID, whatever the
\* other tasks have set in the meantime.
C1_OwnKeyOnly ==
    \A t \in Tasks :
        InFlight(t) =>
            /\ seen[t] # None => seen[t] = OwnKey(req[t])
            /\ _get_user_id(ctx[ContextOf(t)]) = OwnKey(req[t])

\* Two requests with different identifiers are in flight together and each
\* has read its key: the later read happened after the other request had set
\* its identifier.
C1_Witness ==
    /\ pc[1] = "awaiting" /\ pc[2] = "awaiting"
    /\ RequestUserId(req[1]) # RequestUserId(req[2])
    /\ seen[1] # None /\ seen[2] # None
    /\ seen[1] # seen[2]

\* C2: the variable is set at entry and reset at exit on every path. A task
\* that is not serving a request finds the variable unset (get() returns the
\* default), and the value a request found at entry, kept in its token, is
\* the unset one: no identifier of an earlier request on the same task.
C2_ResetOnEveryPath ==
    \A t \in Tasks :
        /\ pc[t] = "idle" => /\ ctx[ContextOf(t)] = MISSING
                             /\ ContextVarGet(ctx[ContextOf(t)]) = "default"
        /\ InFlight(t) => /\ token[t] = MISSING
                          /\ ctx[ContextOf(t)] = RequestUserId(req[t])

\* A request with an identifier of its own ended by an exception and the
\* task is idle again.
C2_Witness ==
    \E t \in Tasks :
        /\ pc[t] = "idle"
        /\ outcome[t] = "raised"
        /\ RequestUserId(req[t]) # "default"

(***************************************************************************)
(* Properties: protocol translation proxy (SpecProxy)                      *)
(***************************************************************************)
Answered == result # NoResult
UpstreamAnswered == upstream.kind = "response"
Upstream5xx == UpstreamAnswered /\ upstream.status >= 500
Upstream4xx ==
    UpstreamAnswered /\ upstream.status >= 400 /\ upstream.status < 500
UpstreamDown == upstream.kind \in {"connection_refused", "dns_failure"}

\* C3: in every forwarding mode and for every upstream outcome the caller
\* never sees a 5xx; an upstream 5xx and an unreachable upstream both give
\* the caller a 429.
C3_Never5xx ==
    Answered =>
        /\ CallerStatus(result) < 500
        /\ (Upstream5xx \/ UpstreamDown) =>
              (result.type = "HTTPException" /\ result.status_code = 429)

\* A JSON POST whose upstream answered 503 was answered with 429.
C3_Witness ==
    /\ Answered
    /\ call.mode = "post_json"
    /\ Upstream5xx /\ upstream.status = 503
    /\ CallerStatus(result) = 429

\* C4: an upstream 4xx is relayed with the same status in every forwarding
\* mode (GET, JSON POST, multipart POST).
C4_Relay4xx ==
    (Answered /\ Upstream4xx) =>
        /\ result.type = "HTTPException"
        /\ result.status_code = upstream.status

\* C5: when the upstream answers 5xx, the 429 raised toward the caller has
\* error UpstreamError and carries the upstream status, in every mode.
C5_UpstreamStatusRecorded ==
    (Answered /\ Upstream5xx) =>
        /\ result.type = "HTTPException"
        /\ result.status_code = 429
        /\ result.detail.kind = "dict"
        /\ result.detail.error = "UpstreamError"
        /\ "upstream_status" \in DOMAIN result.detail
        /\ result.detail.upstream_status = upstream.status

(***************************************************************************)
(* Properties: route manifest store (SpecManifest)                         *)
(***************************************************************************)
Loaded == loaded # NotLoaded
SkipSet == Truthy(env.skip)
\* The manifest text load consults, or Unset when there is none.
SourceText == IF Truthy(env.inline) THEN env.inline ELSE env.file
NoSource == SourceText = Unset
\* The text is a list, or an object containing a `routes` list.
WellFormed(text) ==
    \/ text.json = "list"
    \/ /\ text.json = "object"
       /\ text.has_routes
       /\ text.routes.json = "list"
\* The discovered list, when the source is well formed.
Discovered ==
    IF NoSource THEN <<>>
    ELSE IF SourceText.json = "list" THEN SourceText.items
    ELSE SourceText.routes.items
\* The call reached the merge.
Merged == Loaded /\ ~SkipSet /\ loaded.status = "returned"
                 /\ (NoSource \/ WellFormed(SourceText))

Occurrences(seq, x) == Cardinality({ i \in 1..Len(seq) : seq[i] = x })
ConflictWarnings(s, d) ==
    Cardinality({ n \in 1..Len(log) :
                    /\ log[n].level = "warning"
                    /\ log[n].static = s
                    /\ log[n].discovered = d })
AnyWarning == \E n \in 1..Len(log) : log[n].level = "warning"
UniqueKeys(routes) ==
    \A i, j \in 1..Len(routes) :
        RouteKey(routes[i]) = RouteKey(routes[j]) => i = j
SameDefinition(s, d) ==
    /\ RouteKey(s) = RouteKey(d)
    /\ RouteGet(s, "port") = RouteGet(d, "port")
    /\ RouteGet(s, "target_path") = RouteGet(d, "target_path")

\* C6: conflict precedence. For a static entry and a discovered entry with the
\* same (path, uppercased method) and a different port or target_path, the
\* merged manifest keeps the discovered entry in place, adds no entry of
\* that key, and the log holds one conflict warning for the pair per
\* occurrence of the static entry.
C6_ConflictPrecedence ==
    Merged =>
        \A i \in 1..Len(static_routes), j \in 1..Len(Discovered) :
            LET s == static_routes[i]
                d == Discovered[j]
            IN  (RouteKey(s) = RouteKey(d) /\ ~SameDefinition(s, d)) =>
                    /\ Len(loaded.routes) >= Len(Discovered)
                    /\ loaded.routes[j] = d
                    /\ \A n \in (Len(Discovered) + 1)..Len(loaded.routes) :
                           RouteKey(loaded.routes[n]) # RouteKey(s)
                    /\ ConflictWarnings(s, d) = Occurrences(static_routes, s)

\* C7: in every manifest load returns, no two entries have the same path and
\* the same uppercased method (default GET).
C7_UniqueKeys ==
    (Loaded /\ loaded.status = "returned") => UniqueKeys(loaded.routes)

\* C8: merge idempotence. When every static entry has an identical entry
\* (path, method, port, target_path) in the discovered manifest, load returns
\* the discovered manifest with nothing added and logs no conflict warning;
\* and merging the static list again into any returned manifest returns it
\* unchanged.
C8_MergeIdempotent ==
    Merged =>
        /\ (\A i \in 1..Len(static_routes) :
              \E j \in 1..Len(Discovered) :
                  SameDefinition(static_routes[i], Discovered[j]))
            => (loaded.routes = Discovered /\ ~AnyWarning)
        /\ MergeStatic(loaded.routes, static_routes).routes = loaded.routes

\* C9 as stated: with no discovered source and an empty static list load
\* raises the manifest-missing error and never returns; with a non-empty
\* static list it does not fail.
C9_MissingAsStated ==
    (Loaded /\ NoSource) =>
        IF static_routes = <<>>
        THEN loaded = RuntimeError
        ELSE loaded.status = "returned"

\* C9 amended: unless CHUTES_SKIP_ROUTE_REGISTRATION is set, in which case
\* load returns the empty manifest without consulting anything, a call with
\* no discovered source raises the manifest-missing error exactly when the
\* static list is empty, and otherwise returns the static entries merged.
C9_MissingUnlessSkipped ==
    (Loaded /\ NoSource) =>
        IF SkipSet THEN loaded = Returned(<<>>)
        ELSE IF static_routes = <<>> THEN loaded = RuntimeError
        ELSE /\ loaded.status = "returned"
             /\ loaded.routes # <<>>
             /\ loaded.routes[1] = static_routes[1]

\* No source, no static route, no skip variable: the call raised.
C9_Witness ==
    /\ Loaded /\ NoSource /\ ~SkipSet
    /\ static_routes = <<>>
    /\ loaded = RuntimeError

\* C10: a discovered text that is neither a list nor an object containing a
\* routes list makes load raise the parse error; it is never accepted as an
\* empty manifest.
C10_MalformedRejected ==
    (Loaded /\ ~SkipSet /\ ~NoSource /\ ~WellFormed(SourceText)) =>
        loaded = ValueError

(***************************************************************************)
(* Properties: passthrough route registrar (SpecRegistrar)                 *)
(***************************************************************************)
Registered == regstate = "returned"
\* The exclusion rules in their priority order, and the reason of the first
\* one that matches the path.
HasParameter(p) == \E i \in 1..Len(p) : p[i] \in {"{", "}"}
HasDot(p) == \E i \in 1..Len(p) : p[i] = "."
IsRootOrEmpty(p) == p = << >> \/ p = << "/" >>
HasInternalPrefix(p) ==
    \E n \in 1..Len(_SKIP_PATH_PREFIXES) :
        LET prefix == _SKIP_PATH_PREFIXES[n]
        IN  /\ Len(p) >= Len(prefix)
            /\ \A i \in 1..Len(prefix) : p[i] = prefix[i]
FirstRuleReason(p) ==
    IF HasParameter(p) THEN "path parameter"
    ELSE IF HasDot(p) THEN "file extension in path"
    ELSE IF IsRootOrEmpty(p) THEN "root/empty path"
    ELSE IF HasInternalPrefix(p) THEN "internal/UI route"
    ELSE None
IsExcluded(route) == FirstRuleReason(RoutePath(route)) # None
IsKept(route) == ~IsExcluded(route)
SkipRecords == SelectSeq(reglog, LAMBDA rec : rec.level = "debug")
ExcludedEntries == SelectSeq(manifest, IsExcluded)
KeptEntries == SelectSeq(manifest, IsKept)

\* C11: a path is skipped exactly when it contains a brace, contains a dot,
\* is empty or "/", or starts with an internal-UI prefix, and the reason
\* logged is that of the first matching rule in this order; the four example
\* paths are excluded and /inference and /speak are not.
C11_ExclusionFilter ==
    /\ _should_skip_route(PathParam) = "path parameter"
    /\ _should_skip_route(PathFavicon) = "file extension in path"
    /\ _should_skip_route(PathRoot) = "root/empty path"
    /\ _should_skip_route(PathGradio) = "internal/UI route"
    /\ _should_skip_route(PathInference) = None
    /\ _should_skip_route(PathSpeak) = None
    /\ Registered =>
          /\ Len(SkipRecords) = Len(ExcludedEntries)
          /\ \A k \in 1..Len(SkipRecords) :
                /\ SkipRecords[k].path = RoutePath(ExcludedEntries[k])
                /\ SkipRecords[k].reason =
                       FirstRuleReason(RoutePath(ExcludedEntries[k]))
          /\ \A k \in 1..Len(cords) :
                FirstRuleReason(cords[k].public_api_path) = None

\* A path matching two rules (a dot and an internal prefix) was skipped with
\* the reason of the earlier rule, next to a route that was registered.
C11_Witness ==
    /\ Registered
    /\ cords # << >>
    /\ \E k \in 1..Len(SkipRecords) :
          /\ SkipRecords[k].path = PathStaticDot
          /\ SkipRecords[k].reason = "file extension in path"

\* C12: register creates one handler per non-excluded entry, in order, and
\* none for an excluded one; the handler is bound to the uppercased method
\* and the path, relays to the port and to target_path (path when absent),
\* keeps the stream flag; a skipped entry does not stop the later ones.
C12_OneHandlerPerEntry ==
    Registered =>
        /\ Len(cords) = Len(KeptEntries)
        /\ \A k \in 1..Len(cords) :
              LET route == KeptEntries[k]
                  cord == cords[k]
              IN  /\ cord.passthrough
                  /\ cord.public_api_path = route.path
                  /\ cord.public_api_method =
                         Upper(IF "method" \in DOMAIN route THEN route.method
                               ELSE "GET")
                  /\ cord.passthrough_port =
                         (IF "port" \in DOMAIN route THEN route.port
                          ELSE default_port)
                  /\ cord.passthrough_path =
                         (IF "target_path" \in DOMAIN route
                          THEN route.target_path ELSE route.path)
                  /\ cord.stream =
                         (IF "stream" \in DOMAIN route THEN route.stream
                          ELSE FALSE)

\* An excluded entry came first and the entries after it were registered,
\* one of them with a target path of its own.
C12_Witness ==
    /\ Registered
    /\ Len(manifest) = 3
    /\ IsExcluded(manifest[1])
    /\ Len(cords) = 2
    /\ \E k \in 1..Len(cords) :
          cords[k].passthrough_path # cords[k].public_api_path

\* C13: within one register call the internal identifiers of the handlers
\* (the cord path and the handler name) are pairwise distinct.
C13_DistinctIdentifiers ==
    \A i, j \in 1..Len(cords) :
        i # j => /\ cords[i].path # cords[j].path
                 /\ cords[i].name # cords[j].name

\* Two routes of the same method whose different paths sanitise to the same
\* name were both registered.
C13_Witness ==
    /\ Registered
    /\ \E i, j \in 1..Len(cords) :
          /\ i # j
          /\ cords[i].public_api_path # cords[j].public_api_path
          /\ cords[i].public_api_method = cords[j].public_api_method
          /\ _sanitize_route_name(cords[i].public_api_path) =
                 _sanitize_route_name(cords[j].public_api_path)

(***************************************************************************)
(* Properties: readiness prober (SpecProber)                               *)
(***************************************************************************)
IsWait == pcall.op = "wait"
IsHealth == pcall.op = "health"
ProbeReturned == presult.kind = "returned"
ProbeRaised == presult.kind = "raised"
EndpointIndices == [i \in 1..Len(pcall.ports) |-> i]
\* The endpoints of the call that did not accept a connection, in order.
FailedIndices == SelectSeq(EndpointIndices, LAMBDA i : i \notin accepted)

\* C14: wait_for never hangs. A failed attempt made once the deadline
\* computed at the start of the call (start + timeout) has passed is not
\* followed by another sleep and retry; the error raised is the timeout error
\* naming the host and the port that did not accept; the call returns ok
\* only if every endpoint accepted a connection.
C14_DeadlineAtCallStart ==
    IsWait =>
        /\ ppc = "sleep" => now < pcall.start + pcall.timeout
        /\ ProbeRaised =>
              /\ presult.error = "RuntimeError"
              /\ presult.host = LOCAL_HOST
              /\ \E i \in 1..Len(pcall.ports) :
                    i \notin accepted /\ pcall.ports[i] = presult.port
        /\ ProbeReturned => accepted = 1..Len(pcall.ports)

\* C15: the health check only reports. probe_services never raises, its
\* list holds one message per endpoint that did not accept and none for one
\* that did, also for the endpoints after a failed one; /health answers
\* healthy with the ports when the list is empty, else unhealthy with it.
C15_HealthOnlyReports ==
    IsHealth =>
        /\ ~ProbeRaised
        /\ ProbeReturned =>
              /\ Len(errors) = Len(FailedIndices)
              /\ \A k \in 1..Len(errors) :
                    LET port == pcall.ports[FailedIndices[k]]
                    IN  errors[k] =
                            ProbeError(port, TimedOut(LOCAL_HOST, port))
              /\ IF errors = << >>
                 THEN presult = [kind |-> "returned", status |-> "healthy",
                                 ports |-> pcall.ports]
                 ELSE presult = [kind |-> "returned", status |-> "unhealthy",
                                 errors |-> errors]

\* The first endpoint timed out, the probe went on and the second accepted.
C15_Witness ==
    /\ IsHealth /\ ProbeReturned
    /\ Len(pcall.ports) = 2
    /\ accepted = {2}
    /\ Len(errors) = 1
    /\ presult.status = "unhealthy"

\* C16: a /health call made after the vendor process has crashed, its ports
\* accepting no connection any more, answers unhealthy, never healthy, with
\* one error for each service port.
C16_UnhealthyAfterCrash ==
    (IsHealth /\ pcall.after_crash /\ presult # NoProbeResult) =>
        /\ ProbeReturned
        /\ presult.status = "unhealthy"
        /\ Len(presult.errors) = Len(pcall.ports)

\* The ports had come up, the vendor process crashed, and a /health call
\* made for both ports after the crash has answered.
C16_Witness ==
    /\ crashed
    /\ IsHealth /\ pcall.after_crash
    /\ Len(pcall.ports) = 2
    /\ ProbeReturned
    /\ presult.status = "unhealthy"

(***************************************************************************)
(* Properties: vendor process supervisor (SpecVendor)                      *)
(***************************************************************************)
Containerized == container_name # None
StopCalls == 1..Len(stoplog)
LifecycleRank(st) ==
    CASE st = "NotStarted" -> 0
      [] st = "Starting" -> 1
      [] st = "Running" -> 2
      [] st = "Stopping" -> 3
      [] st = "Stopped" -> 4

\* C17: stop() is idempotent. A call made after the process has exited, by
\* itself or through an earlier stop, sends no signal, goes straight to the
\* container removal and returns with the process exited and, for a
\* containerized handle, the container removed.
C17_StopIdempotent ==
    /\ (spc # "idle" /\ cur.exited_at_entry) =>
          (spc = "remove" /\ cur.signals = << >>)
    /\ \A k \in StopCalls :
          stoplog[k].exited_at_entry =>
              /\ stoplog[k].signals = << >>
              /\ stoplog[k].exited_at_return
              /\ Containerized => stoplog[k].removed
    /\ \A k \in StopCalls :
          (k > 1 /\ Containerized) => container = "removed"

\* A second stop() found the process exited through the first one, for a
\* containerized handle.
C17_Witness ==
    /\ Containerized
    /\ Len(stoplog) >= 2
    /\ stoplog[1].signals # << >>
    /\ stoplog[2].exited_at_entry
    /\ container = "removed"

\* C18: two phases. A stop() call sends nothing, SIGTERM, or SIGTERM then
\* SIGKILL; the kill is sent only after the wait for the grace period timed
\* out, never when the process exited in time, and never before a SIGTERM.
C18_TwoPhase ==
    /\ \A k \in StopCalls :
          /\ stoplog[k].signals \in
                 { << >>, << "SIGTERM" >>, << "SIGTERM", "SIGKILL" >> }
          /\ "SIGKILL" \in { stoplog[k].signals[i] :
                               i \in 1..Len(stoplog[k].signals) }
                 => stoplog[k].timed_out
    /\ cur.signals \in { << >>, << "SIGTERM" >>, << "SIGTERM", "SIGKILL" >> }
    /\ cur.timed_out => cur.signals[1] = "SIGTERM"
    /\ Len(cur.signals) = 2 => cur.timed_out
    /\ \A i \in 1..Len(signals) :
          signals[i] = "SIGKILL" => (i > 1 /\ signals[i - 1] = "SIGTERM")

\* A stop() whose wait timed out sent SIGTERM and then SIGKILL, and a later
\* stop() whose process exited in time sent SIGTERM only.
C18_Witness ==
    \E k, m \in StopCalls :
        /\ k < m
        /\ stoplog[k].timed_out
        /\ stoplog[k].signals = << "SIGTERM", "SIGKILL" >>
        /\ ~stoplog[m].timed_out
        /\ stoplog[m].signals = << "SIGTERM" >>

\* C19: for a containerized handle every stop() call issues the container
\* removal, whether the process had exited before, exited on the graceful
\* signal, or was force-killed; for a native handle none is issued.
C19_RemovalEveryStop ==
    /\ \A k \in StopCalls : stoplog[k].removed = Containerized
    /\ ~Containerized => container = "none"

\* Three stop() calls on a containerized handle: one that force-killed, one
\* whose process exited on the graceful signal, one that found it exited.
C19_Witness ==
    /\ Containerized
    /\ Len(stoplog) = 3
    /\ stoplog[1].timed_out /\ stoplog[1].removed
    /\ stoplog[2].signals = << "SIGTERM" >> /\ stoplog[2].removed
    /\ stoplog[3].exited_at_entry /\ stoplog[3].removed

\* C20: the process only moves forward along NotStarted, Starting, Running,
\* Stopping, Stopped; it is Running once spawned; and when a stop() call
\* returns the process has exited, also after the forced kill.
C20_StoppedWhenStopReturns ==
    /\ \A i, j \in 1..Len(visited) :
          i < j => LifecycleRank(visited[i]) < LifecycleRank(visited[j])
    /\ launch = "spawned" => \E i \in 1..Len(visited) : visited[i] = "Running"
    /\ \A k \in StopCalls : stoplog[k].exited_at_return

(***************************************************************************)
(* Properties: vendor launcher (SpecLauncher)                              *)
(***************************************************************************)

LaunchReturned == launched.kind = "returned"

Native == machine.entrypoint_exists

\* The ports the call was asked to expose: service ports, then auxiliary.
AllPorts == largs.service_ports \o largs.whisper_ports

\* The positions of a command line that hold the flag.
FlagPositions(cmd, flag) == { i \in 1..Len(cmd) : cmd[i] = flag }

\* C21: launch picks the mode from the entrypoint alone.  With the
\* entrypoint present it returns a native handle: a bash process running
\* the entrypoint and no container name.  Every handle it returns without
\* the entrypoint is containerized: a docker run process and a container
\* name made of the label, the pid and the fresh uuid, whose command line
\* publishes every service and auxiliary port as port:port and nothing
\* else.  A handle has a container name only together with a process.
C21_ModeByEntrypoint ==
    /\ launched # NotLaunched /\ Native => LaunchReturned
    /\ LaunchReturned =>
         LET h == launched.handle
             cmd == h.proc.args
         IN  /\ (h.container_name = None) <=> Native
             /\ Native => cmd = << "bash", "-lc", entrypoint >>
             /\ h.container_name # None => Len(cmd) > 0
             /\ ~Native =>
                  /\ cmd[1] = "docker" /\ cmd[2] = "run"
                  /\ h.container_name =
                       label \o "-" \o ToString(machine.pid) \o "-"
                             \o machine.uuid
                  /\ \E i \in FlagPositions(cmd, "--name") :
                         cmd[i + 1] = h.container_name
                  /\ \A k \in 1..Len(AllPorts) :
                       \E i \in FlagPositions(cmd, "-p") :
                         cmd[i + 1] = ToString(AllPorts[k]) \o ":"
                                       \o ToString(AllPorts[k])
                  /\ Cardinality(FlagPositions(cmd, "-p")) = Len(AllPorts)

\* A containerized handle publishing a service port and an auxiliary port.
C21_Witness ==
    /\ LaunchReturned
    /\ ~Native
    /\ launched.handle.container_name # None
    /\ Len(largs.service_ports) = 2
    /\ Len(largs.whisper_ports) = 1
    /\ Cardinality(FlagPositions(launched.handle.proc.args, "-p")) = 3

\* The override the call reads: os.getenv(dev_gpu_env), None without a name.
GpuOverride ==
    IF largs.dev_gpu_env = None THEN None
    ELSE Getenv(machine.environ, largs.dev_gpu_env)

HasGpuFlag(cmd) ==
    FlagPositions(cmd, "--gpus") \cup FlagPositions(cmd, "--runtime") # {}

\* C22: the docker run command of a containerized launch carries a GPU
\* flag (--gpus, --runtime) only if nvidia-smi is found on the host or a
\* non-empty override is set; with neither, it carries none.
C22_GpuFlagsOnlyWithGpu ==
    LaunchReturned /\ ~Native =>
        LET cmd == launched.handle.proc.args
        IN  /\ HasGpuFlag(cmd) =>
                machine.nvidia_smi \/ GpuOverride \notin {None, ""}
            /\ ~machine.nvidia_smi /\ GpuOverride \in {None, ""} =>
                ~HasGpuFlag(cmd)
            /\ FlagPositions(cmd, "--runtime") # {} =>
                machine.nvidia_smi /\ machine.nvidia_container_runtime

\* A container started on a host without nvidia-smi and without override:
\* its command has no GPU flag.
C22_Witness ==
    /\ LaunchReturned
    /\ ~Native
    /\ ~machine.nvidia_smi
    /\ GpuOverride \in {None, ""}
    /\ ~HasGpuFlag(launched.handle.proc.args)
    /\ largs.dev_gpu_env # None

\* C23: when the entrypoint is missing and the container cannot be
\* launched (no docker client, or docker run fails), the call raises
\* ProcessLaunchFailure and returns no handle.
C23_LaunchFailureSurfaced ==
    launched # NotLaunched /\ ~Native /\ machine.docker # "ok" =>
        launched = LaunchRaised("ProcessLaunchFailure")

(***************************************************************************)
(* Properties: key derivation (SpecDerive)                                 *)
(***************************************************************************)

\* The identifier a request supplies: its silo_id unless absent or empty,
\* else its X-Silo-ID header; None when it supplies neither.
SuppliedIdentifier(r) ==
    IF r.query # None /\ r.query # "" THEN r.query ELSE r.header

\* The requests served for which _get_user_id was called.
Served == { i \in 1..Len(derived) : derived[i].key # None }

HexDigits ==
    {"0", "1", "2", "3", "4", "5", "6", "7", "8", "9",
     "a", "b", "c", "d", "e", "f"}

IsHexDigest16(key) ==
    /\ Len(key) = 16
    /\ \A i \in 1..16 : SubSeq(key, i, i) \in HexDigits

\* C24: key derivation is deterministic and asymmetric.  Two requests that
\* supply the same identifier get the same key, whatever was served before
\* and between them; a request that supplies no identifier gets the literal
\* "default", which is not a 16-digit hexadecimal digest.
C24_DeterministicKey ==
    \A i \in Served, j \in Served :
        /\ SuppliedIdentifier(derived[i].request)
             = SuppliedIdentifier(derived[j].request)
           => derived[i].key = derived[j].key
        /\ SuppliedIdentifier(derived[i].request) = None
           => /\ derived[i].key = "default"
              /\ ~IsHexDigest16(derived[i].key)

\* The same identifier served twice with an anonymous request in between.
C24_Witness ==
    /\ Len(derived) = 3
    /\ SuppliedIdentifier(derived[1].request) = "alice"
    /\ SuppliedIdentifier(derived[2].request) = None
    /\ SuppliedIdentifier(derived[3].request) = "alice"
    /\ derived[1].key = derived[3].key
    /\ derived[1].key # None
    /\ derived[2].key = "default"

\* C25: every identifier a caller supplies is turned into a 16-character
\* hexadecimal digest, and the key is never the identifier itself.
C25_NeverRawIdentifier ==
    \A i \in Served :
        SuppliedIdentifier(derived[i].request) # None =>
            /\ IsHexDigest16(derived[i].key)
            /\ derived[i].key # SuppliedIdentifier(derived[i].request)

(***************************************************************************)
(* Properties: siloing of payload fields (SpecProxy)                       *)
(***************************************************************************)

SiloedFields == {"speaker_name", "speaker_wav"}

\* A value that is neither a path nor a composite reference.
IsBareName(value) == ~StartsWith(value, "/") /\ ~Contains(value, "|")

Posted == sent.method = "POST"

\* C26: in the payload a POST helper sends, a siloed field holding a bare
\* name is the key, "_" and the name; a siloed field holding a path or a
\* composite reference, and every field outside the siloed set, is what the
\* caller gave; no field is added or removed.
C26_OnlyBareNamesRewritten ==
    Posted =>
        /\ DOMAIN sent.body = DOMAIN call.payload
        /\ \A k \in DOMAIN call.payload :
             IF k \in SiloedFields /\ IsBareName(call.payload[k])
             THEN sent.body[k]
                    = << _get_user_id(call.ctx), "_" >> \o call.payload[k]
             ELSE sent.body[k] = call.payload[k]

(***************************************************************************)
(* Properties: multipart translation (SpecMultipart)                       *)
(***************************************************************************)

IsBase64Field(k) == EndsWithBase64(k)

\* The item is null: JSON null, Python None.
IsNull(k) == call.payload[k] = NoneValue

\* The item's base64 text does not decode.
DecodeFails(k) ==
    /\ IsBase64Field(k)
    /\ ~IsNull(k)
    /\ ~b64decode(call.payload[k]).ok

\* part is the encoding of item k by the rule for its kind.
EncodesItem(part, k) ==
    IF IsBase64Field(k)
    THEN /\ part.name \o Base64Suffix = k
         /\ part.filename # None
         /\ part.value = b64decode(call.payload[k]).bytes
    ELSE IF IsNested(sent.body[k])
    THEN /\ part.name = k
         /\ part.content_type = "application/json"
         /\ part.value = JsonDumps(sent.body[k])
    ELSE /\ part.name = k
         /\ part.filename = None
         /\ part.content_type = None
         /\ part.value = sent.body[k]

\* C27 as stated: a call always forwards the request, and the form holds
\* the encoding of every item of the payload except those whose base64
\* text fails to decode.
C27_AllOtherFieldsForwarded ==
    Answered =>
        /\ Posted
        /\ \A k \in DOMAIN call.payload :
             ~DecodeFails(k) => \E part \in sent.form : EncodesItem(part, k)

\* The item is null in the payload the encoder gets, after the siloing.
SentNull(k) == sent.body[k] = NoneValue

\* What a call does with every payload.  When the siloing raises, nothing
\* is forwarded and the caller gets 429 InternalProxyError.  Otherwise the
\* request is forwarded; the form holds the encoding of every item that is
\* not null and whose base64 text, if it is one, decodes; it holds nothing
\* for a null item or for an item that fails to decode, and nothing else
\* besides.
MultipartForwarding ==
    Answered =>
        IF SiloRaises(call.payload)
        THEN /\ ~Posted
             /\ result = InternalProxyError([type |-> "AttributeError"])
        ELSE /\ Posted
             /\ \A k \in DOMAIN call.payload :
                  IF SentNull(k) \/ DecodeFails(k)
                  THEN \A part \in sent.form : ~EncodesItem(part, k)
                  ELSE \E part \in sent.form : EncodesItem(part, k)
             /\ \A part \in sent.form :
                  \E k \in DOMAIN call.payload : EncodesItem(part, k)
             /\ sent.warnings = { k \in DOMAIN call.payload : DecodeFails(k) }

\* A payload with audio that does not decode, a text, a nested value and a
\* name was forwarded: three parts, the audio is not among them.
DecodeFailureForwarded ==
    /\ Answered
    /\ Posted
    /\ DOMAIN call.payload
         = {"wav_file_base64", "text", "options", "speaker_name"}
    /\ DecodeFails("wav_file_base64")
    /\ Cardinality(sent.form) = 3
    /\ \A part \in sent.form : part.name # "wav_file"

\* A payload with audio that does not decode, a text and a null
\* speaker_wav was answered without being forwarded.
NullSpeakerWavNotForwarded ==
    /\ Answered
    /\ ~Posted
    /\ DOMAIN call.payload = {"wav_file_base64", "text", "speaker_wav"}
    /\ DecodeFails("wav_file_base64")
    /\ call.payload["text"] # NoneValue
    /\ call.payload["speaker_wav"] = NoneValue

\* A payload whose speaker_wav is a list was answered without being
\* forwarded.
ListSpeakerWavNotForwarded ==
    /\ Answered
    /\ ~Posted
    /\ DOMAIN call.payload = {"text", "speaker_wav"}
    /\ IsNested(call.payload["speaker_wav"])
    /\ result = InternalProxyError([type |-> "AttributeError"])

\* A null speaker_name was forwarded as the key, "_" and the text "None".
NullSpeakerNameForwarded ==
    /\ Answered
    /\ Posted
    /\ "speaker_name" \in DOMAIN call.payload
    /\ call.payload["speaker_name"] = NoneValue
    /\ \E part \in sent.form :
         /\ part.name = "speaker_name"
         /\ part.value
              = << _get_user_id(call.ctx), "_", "N", "o", "n", "e" >>

(***************************************************************************)
(* Properties: GET /load on the whisper cord (SpecWhisperLoad)             *)
(***************************************************************************)

\* The upstream answered 404 with a text body that mentions /load.
LoadNotServed ==
    /\ UpstreamAnswered
    /\ upstream.status = 404
    /\ ParsedJson(upstream).kind = "None"
    /\ StrContains(upstream.body, "/load")

UpstreamError == UpstreamDown \/ (UpstreamAnswered /\ upstream.status >= 400)

\* C28: when the upstream answers GET /load with a 404 whose text body
\* mentions /load, the cord returns the object with status unavailable;
\* for any other upstream error it raises an HTTPException.
C28_LoadUnavailableOn404 ==
    Answered =>
        /\ LoadNotServed => result = LoadUnavailable
        /\ UpstreamError /\ ~LoadNotServed => result.type = "HTTPException"

(***************************************************************************)
(* Properties: order and frame of the merge (SpecManifest)                 *)
(***************************************************************************)

DiscoveredKeys == { RouteKey(Discovered[i]) : i \in 1..Len(Discovered) }

\* The static entries the merge has to add: the key is not a discovered
\* one and no earlier static entry has it.
AddedStatic ==
    { i \in 1..Len(static_routes) :
        /\ RouteKey(static_routes[i]) \notin DiscoveredKeys
        /\ \A j \in 1..(i - 1) :
             RouteKey(static_routes[j]) # RouteKey(static_routes[i]) }

\* The n-th of them, in static order.
NthAdded(n) ==
    CHOOSE i \in AddedStatic :
        Cardinality({ j \in AddedStatic : j <= i }) = n

\* C29: the merged manifest is the discovered list, entry for entry and in
\* its order, followed by the static entries whose key was not yet present,
\* in static order; of static entries sharing a key only the first is
\* added.
C29_DiscoveredThenNewStatic ==
    Merged =>
        /\ Len(loaded.routes) = Len(Discovered) + Cardinality(AddedStatic)
        /\ \A i \in 1..Len(Discovered) : loaded.routes[i] = Discovered[i]
        /\ \A n \in 1..Cardinality(AddedStatic) :
             loaded.routes[Len(Discovered) + n] = static_routes[NthAdded(n)]

\* Two discovered entries, and two different static entries that share a
\* key no discovered entry has: the first static entry alone is appended.
C29_Witness ==
    /\ Merged
    /\ Len(Discovered) = 2
    /\ Len(static_routes) = 2
    /\ static_routes[1] # static_routes[2]
    /\ RouteKey(static_routes[1]) = RouteKey(static_routes[2])
    /\ RouteKey(static_routes[1]) \notin DiscoveredKeys
    /\ Len(loaded.routes) = 3
    /\ loaded.routes[3] = static_routes[1]

(***************************************************************************)
(* Properties: synthesis engine lock (SpecEngineLive, SpecEngineCancel)    *)
(***************************************************************************)

\* The callers inside the `async with self._lock` block.
InsideLock ==
    { t \in Callers : epc[t] \in {"holding", "awaiting", "cancelled"} }

\* The _generate calls running in worker threads: the ones started by a
\* call that is still inside the block and the ones left behind by a
\* cancelled task.
RunningGenerations == Cardinality(generating) + orphans

\* At most one caller is inside the block, a _generate counted for a caller
\* belongs to the caller inside the block, and the lock is held exactly
\* while a caller is inside the block.
LockConsistent ==
    /\ Cardinality(InsideLock) <= 1
    /\ generating \subseteq InsideLock
    /\ lock.locked <=> InsideLock # {}

\* At most one _generate runs, and only inside the lock.
OneGenerationAtATime ==
    /\ RunningGenerations <= 1
    /\ LockConsistent

\* C30: concurrent synthesize calls on one engine never run _generate at
\* the same time, the lock is free again whenever no call is inside the
\* block (also after a generation that failed), and a call that waits for
\* the lock eventually gets it.
C30_SerializedGeneration ==
    /\ []OneGenerationAtATime
    /\ \A t \in Callers : (epc[t] = "waiting") ~> (epc[t] = "holding")

\* A call whose _generate has ended in its thread and whose future was
\* left pending by the callback: it will never be completed, the call
\* stays inside the block.
Hung(t) ==
    /\ epc[t] = "awaiting"
    /\ t \notin generating
    /\ ended[t] = None
    /\ future[t] = Pending

\* As long as no call hangs, a call that waits for the lock gets it.
WaitingProceedsUnlessHung ==
    \A t \in Callers :
        (epc[t] = "waiting")
            ~> (epc[t] = "holding" \/ \E u \in Callers : Hung(u))

\* A call waits for the lock that a hung call holds.
WaitingBehindHung ==
    \E t \in Callers, u \in Callers : epc[t] = "waiting" /\ Hung(u)

\* The lock itself stays consistent under cancellation, and the _generate
\* calls of callers inside the block never overlap.
AwaitedGenerationsSerialized ==
    /\ LockConsistent
    /\ Cardinality(generating) <= 1

\* A caller generates inside the lock while the _generate of a cancelled
\* call is still running.
TwoGenerationsAtOnce ==
    /\ orphans = 1
    /\ \E t \in Callers : generating = {t} /\ waited[t]
    /\ \E u \in Callers : eoutcome[u] = "cancelled" /\ epc[u] = "idle"

\* A call was cancelled after its _generate had ended: no thread is left
\* behind.
CancelledAfterGenerateEnded ==
    \E u \in Callers :
        /\ eoutcome[u] = "cancelled"
        /\ epc[u] = "idle"
        /\ ~waited[u]
        /\ orphans = 0
        /\ generating = {}
        /\ ~lock.locked

\* A call that had to wait is generating after the generation of another
\* caller failed, while a third call is still waiting.
GeneratingAfterFailure ==
    \E t \in Callers, u \in Callers, w \in Callers :
        /\ eoutcome[u] = "HTTPException_500"
        /\ epc[u] = "idle"
        /\ waited[t]
        /\ generating = {t}
        /\ epc[w] = "waiting"

=============================================================================
